---- MODULE Spec2Model ----
(***************************************************************************)
(* Boardroom decision workflow: the governance state machine               *)
(* (build -> review -> synthesize -> score -> gate -> expand -> persist),  *)
(* the reviewer / synthesis adapters and their tolerant JSON parsing, and  *)
(* the external collaborators (Notion store, completion provider) as       *)
(* nondeterministic environments.                                          *)
(***************************************************************************)
EXTENDS Integers, Sequences, FiniteSets, TLC

VARIABLES
    pc,                 \* next graph node of the run ("END" / "ABORTED" when over)
    decision_snapshot,  \* GraphState["decision_snapshot"]
    reviews,            \* GraphState["reviews"]
    dqs,                \* GraphState["dqs"] (an IEEE double, see Float section)
    status,             \* GraphState["status"]
    synthesis,          \* GraphState["synthesis"]
    prd,                \* GraphState["prd"]
    missing_sections,   \* GraphState["missing_sections"]
    decision_name,      \* GraphState["decision_name"]
    gate,               \* value returned by _decide_gate ("none" before it returns)
    notion,             \* the store: successful writes, in order
    calls,              \* provider calls made so far: agent name -> <<max_tokens, ...>>
    trace,              \* graph nodes entered so far, in order
    error,              \* exception that left run() ("none" while none did)
    a_pc,               \* adapter harness: position
    a_agent,            \* adapter harness: the adapter under evaluation
    a_script,           \* adapter harness: what the provider will answer, call by call
    a_raw,              \* adapter harness: value returned by evaluate
    a_review,           \* adapter harness: value returned by _get_agent_review_output
    decision_id,        \* GraphState["decision_id"]: the document main() passes to run()
    r_pc,               \* entry point: position of main() ("off" when main is not run)
    r_queue,            \* entry point: documents of the scan the loop has not reached
    r_done,             \* entry point: documents whose run returned, with the final status
    t_pc,               \* text harness: "off", "call" before and "return" after the call
    t_in,               \* text harness: the function called and its arguments
    t_out               \* text harness: the value the call returned

vars == <<pc, decision_snapshot, reviews, dqs, status, synthesis, prd,
          missing_sections, decision_name, gate, notion, calls, trace, error,
          a_pc, a_agent, a_script, a_raw, a_review,
          decision_id, r_pc, r_queue, r_done, t_pc, t_in, t_out>>

pipeline_vars == <<pc, decision_snapshot, reviews, dqs, status, synthesis, prd,
                   missing_sections, decision_name, gate, notion, calls, trace, error>>

adapter_vars == <<a_pc, a_agent, a_script, a_raw, a_review>>

runner_vars == <<decision_id, r_pc, r_queue, r_done>>

text_vars == <<t_pc, t_in, t_out>>

None == [t |-> "null"]

(***************************************************************************)
(* Float: IEEE-754 binary64 arithmetic as Python performs it.              *)
(* Every double that occurs in the score computation is a multiple of      *)
(* 2^-55 below 2^5, so a double is held as the natural number              *)
(* value * 2^55, written in three base-2^20 limbs, least significant       *)
(* first.  An operation computes the exact result and rounds it to 53      *)
(* significant bits, ties to even.                                         *)
(***************************************************************************)
Radix == 2^20

\* number of significant bits of a limb
RECURSIVE BitLen(_)
BitLen(n) == IF n = 0 THEN 0 ELSE 1 + BitLen(n \div 2)

\* exact sum of two limb numbers
FAddExact(a, b) ==
    LET s0 == a[1] + b[1]
        s1 == a[2] + b[2] + (s0 \div Radix)
        s2 == a[3] + b[3] + (s1 \div Radix)
    IN  <<s0 % Radix, s1 % Radix, s2>>

\* exact product of a limb number and a small integer
FMulExact(a, n) ==
    LET p0 == a[1] * n
        p1 == a[2] * n + (p0 \div Radix)
        p2 == a[3] * n + (p1 \div Radix)
    IN  <<p0 % Radix, p1 % Radix, p2>>

\* round to nearest, ties to even, at 53 significant bits
FRound(a) ==
    LET len == 40 + BitLen(a[3])
        k == len - 53
        q == 2^k
        r == a[1] % q
        odd == ((a[1] \div q) % 2) = 1
        down == <<a[1] - r, a[2], a[3]>>
    IN  IF k <= 0 THEN a
        ELSE IF r * 2 > q \/ (r * 2 = q /\ odd)
             THEN FAddExact(down, <<q, 0, 0>>)
             ELSE down

FMul(a, n) == FRound(FMulExact(a, n))
FAdd(a, b) == FRound(FAddExact(a, b))

FLess(a, b) ==
    \/ a[3] < b[3]
    \/ a[3] = b[3] /\ a[2] < b[2]
    \/ a[3] = b[3] /\ a[2] = b[2] /\ a[1] < b[1]

\* the double nearest to each literal of the source
F_0_30 == <<419430, 419430, 9830>>
F_0_25 == <<0, 0, 8192>>
F_0_20 == <<629146, 629145, 6553>>
F_7_0 == <<0, 0, 229376>>
F_0_0 == <<0, 0, 0>>

\* the integer n as a double (exact for the scores 1..10)
FInt(n) == <<0, 0, n * 32768>>

\* 100 * value as an exact integer over 100, for the real-number weighted sum
WeightedSumTimes100(ceo, cfo, cto, compliance) ==
    30 * ceo + 25 * cfo + 25 * cto + 20 * compliance

(***************************************************************************)
(* JSON values.  A Python value that came out of json.loads carries its    *)
(* type: [t |-> "str" | "int" | "float" | "bool" | "list" | "dict" |       *)
(* "null", v |-> ...].  A float v is held in hundredths.                   *)
(***************************************************************************)
JStr(s) == [t |-> "str", v |-> s]
JInt(n) == [t |-> "int", v |-> n]
JFlt(h) == [t |-> "float", v |-> h]
JBool(b) == [t |-> "bool", v |-> b]
JList(s) == [t |-> "list", v |-> s]
JDict(d) == [t |-> "dict", v |-> d]

\* d[key] = value on a Python dict
DictSet(d, key, value) ==
    [k \in (DOMAIN d) \cup {key} |-> IF k = key THEN value ELSE d[k]]

\* d.get(key, default)
DictGet(d, key, default) == IF key \in DOMAIN d THEN d[key] ELSE default

(***************************************************************************)
(* Completion content is a sequence of tokens: a run of prose, a brace, a  *)
(* bracket, the literal null, or the members of one JSON object.           *)
(***************************************************************************)
LB == [tok |-> "{"]
RB == [tok |-> "}"]
LSQ == [tok |-> "["]
RSQ == [tok |-> "]"]
NUL == [tok |-> "null"]
Prose(s) == [tok |-> "text", text |-> s]
Members(d) == [tok |-> "members", obj |-> d]

\* json.loads: the whole content must be one JSON value
json_loads(content) ==
    IF Len(content) = 3 /\ content[1].tok = "{" /\ content[2].tok = "members"
       /\ content[3].tok = "}"
    THEN [err |-> FALSE, val |-> JDict(content[2].obj)]
    ELSE IF Len(content) = 2 /\ content[1].tok = "{" /\ content[2].tok = "}"
    THEN [err |-> FALSE, val |-> JDict(<<>>)]
    ELSE IF Len(content) = 2 /\ content[1].tok = "[" /\ content[2].tok = "]"
    THEN [err |-> FALSE, val |-> JList(<<>>)]
    ELSE IF Len(content) = 5 /\ content[1].tok = "[" /\ content[2].tok = "{"
            /\ content[3].tok = "members" /\ content[4].tok = "}" /\ content[5].tok = "]"
    THEN [err |-> FALSE, val |-> JList(<<JDict(content[3].obj)>>)]
    ELSE IF Len(content) = 1 /\ content[1].tok = "null"
    THEN [err |-> FALSE, val |-> None]
    ELSE [err |-> TRUE, val |-> None]

\* str.find / str.rfind of a one-character token; positions count from 1 and
\* 0 stands for Python's -1
find(content, tok) ==
    LET hits == {i \in 1..Len(content) : content[i].tok = tok}
    IN  IF hits = {} THEN 0 ELSE CHOOSE i \in hits : \A j \in hits : i <= j

rfind(content, tok) ==
    LET hits == {i \in 1..Len(content) : content[i].tok = tok}
    IN  IF hits = {} THEN 0 ELSE CHOOSE i \in hits : \A j \in hits : i >= j

\* the text of a content, for messages
RECURSIVE Render(_)
Render(content) ==
    IF content = <<>> THEN ""
    ELSE (IF content[1].tok = "text" THEN content[1].text
          ELSE IF content[1].tok = "members" THEN "..."
          ELSE content[1].tok) \o Render(Tail(content))

(***************************************************************************)
(* The completion provider answers one call with one behaviour.            *)
(***************************************************************************)
Raise(msg) ==
    [kind |-> "raise", msg |-> msg, content |-> <<>>, content_none |-> TRUE,
     finish_reason |-> "error"]
Reply(content, finish_reason) ==
    [kind |-> "reply", msg |-> "", content |-> content, content_none |-> FALSE,
     finish_reason |-> finish_reason]
ReplyNone ==
    [kind |-> "reply", msg |-> "", content |-> <<>>, content_none |-> TRUE,
     finish_reason |-> "stop"]

\* the answer to the n-th call of a scripted provider; like the fake of the
\* tests it repeats its last answer once the script is used up
Answer(script, n) == script[IF n <= Len(script) THEN n ELSE Len(script)]

\* "not content"
NotContent(resp) == resp.content_none \/ resp.content = <<>>

\* message of the TypeError of parsed["agent"] = ... on a non-dict
ItemAssignmentError(val) ==
    IF val.t = "null" THEN "'NoneType' object does not support item assignment"
    ELSE "list indices must be integers or slices, not str"

(***************************************************************************)
(* Reviewer adapters                                                       *)
(***************************************************************************)
\* a placeholder that does not block
_placeholder_output_unblocked(name, reason) ==
    [agent |-> JStr(name),
     thesis |-> JStr(name \o " review unavailable due to output parsing failure."),
     score |-> JInt(1),
     confidence |-> JFlt(0),
     blocked |-> JBool(FALSE),
     blockers |-> JList(<<JStr(reason)>>),
     risks |-> JList(<<JDict([type |-> JStr("llm_output_error"),
                            severity |-> JInt(8),
                            evidence |-> JStr(reason)])>>),
     required_changes |-> JList(<<JStr("Regenerate review with strict valid JSON output.")>>),
     approval_conditions |-> JList(<<>>),
     apga_impact_view |-> JStr("Unknown due to invalid model output."),
     governance_checks_met |-> JDict(<<>>)]

\* BaseAgent._placeholder_output
_placeholder_output(name, reason) ==
    [agent |-> JStr(name),
     thesis |-> JStr(name \o " review unavailable due to output parsing failure."),
     score |-> JInt(1),
     confidence |-> JFlt(0),
     blocked |-> JBool(TRUE),
     blockers |-> JList(<<JStr(reason)>>),
     risks |-> JList(<<JDict([type |-> JStr("llm_output_error"),
                            severity |-> JInt(8),
                            evidence |-> JStr(reason)])>>),
     required_changes |-> JList(<<JStr("Regenerate review with strict valid JSON output.")>>),
     approval_conditions |-> JList(<<>>),
     apga_impact_view |-> JStr("Unknown due to invalid model output."),
     governance_checks_met |-> JDict(<<>>)]

\* parsed["agent"] = self.name; return parsed   (inside the adapter's try)
StampAgent(name, parsed) ==
    IF parsed.t = "dict"
    THEN DictSet(parsed.v, "agent", JStr(name))
    ELSE _placeholder_output(name, name \o " LLM call failed: " \o ItemAssignmentError(parsed))

MaxTokensSingle == 1200

\* a single-attempt adapter that parses the content without testing it for
\* emptiness first
SingleAttemptEvaluate_no_empty_test(name, resp) ==
    LET content == IF resp.content_none THEN <<>> ELSE resp.content
        start_index == find(content, "{")
        end_index == rfind(content, "}")
        strict == json_loads(content)
        extracted == json_loads(SubSeq(content, start_index, end_index))
        ret ==
            IF resp.kind = "raise"
            THEN _placeholder_output(name, name \o " LLM call failed: " \o resp.msg)
            ELSE IF ~strict.err
            THEN StampAgent(name, strict.val)
            ELSE IF start_index # 0 /\ end_index # 0 /\ start_index < end_index
            THEN IF extracted.err
                 THEN _placeholder_output(name, name \o " JSON parsing failed after extraction attempt.")
                 ELSE StampAgent(name, extracted.val)
            ELSE _placeholder_output(name, name \o " output had no parseable JSON object.")
    IN  [raised |-> FALSE, ret |-> ret, tokens |-> <<MaxTokensSingle>>]

\* evaluate of a single-attempt adapter: one provider call, answered by resp
SingleAttemptEvaluate(name, resp) ==
    LET content == resp.content
        start_index == find(content, "{")
        end_index == rfind(content, "}")
        strict == json_loads(content)
        extracted == json_loads(SubSeq(content, start_index, end_index))
        ret ==
            IF resp.kind = "raise"
            THEN _placeholder_output(name, name \o " LLM call failed: " \o resp.msg)
            ELSE IF NotContent(resp)
            THEN _placeholder_output(name, name \o " model returned empty content.")
            ELSE IF ~strict.err
            THEN StampAgent(name, strict.val)
            ELSE IF start_index # 0 /\ end_index # 0 /\ start_index < end_index
            THEN IF extracted.err
                 THEN _placeholder_output(name, name \o " JSON parsing failed after extraction attempt.")
                 ELSE StampAgent(name, extracted.val)
            ELSE _placeholder_output(name, name \o " output had no parseable JSON object.")
    IN  [raised |-> FALSE, ret |-> ret, tokens |-> <<MaxTokensSingle>>]

\* a CFO adapter that asks the provider twice
CFOAgent_evaluate_twice(script) ==
    LET first == SingleAttemptEvaluate("CFO", Answer(script, 1))
        second == SingleAttemptEvaluate("CFO", Answer(script, 2))
    IN  [second EXCEPT !.tokens = first.tokens \o second.tokens]

CFOAgent_evaluate(script) == SingleAttemptEvaluate("CFO", Answer(script, 1))
CEOAgent_evaluate(script) == SingleAttemptEvaluate("CEO", Answer(script, 1))
CTOAgent_evaluate(script) == SingleAttemptEvaluate("CTO", Answer(script, 1))

\* ComplianceAgent._parse_json: None when nothing was parsed
_parse_json(content) ==
    LET start_index == find(content, "{")
        end_index == rfind(content, "}")
        strict == json_loads(content)
        extracted == json_loads(SubSeq(content, start_index, end_index))
    IN  IF content = <<>> THEN None
        ELSE IF ~strict.err THEN strict.val
        ELSE IF start_index = 0 \/ end_index = 0 \/ start_index >= end_index THEN None
        ELSE IF extracted.err THEN None
        ELSE extracted.val

\* a plan without the retry
max_tokens_plan_single == <<1200>>

max_tokens_plan == <<1200, 2400>>

TailLen == 240

\* last_content[-240:]
LastTail(content) ==
    IF Len(content) <= TailLen THEN content
    ELSE SubSeq(content, Len(content) - TailLen + 1, Len(content))

\* the loop of ComplianceAgent.evaluate from the given attempt on
RECURSIVE ComplianceLoop(_, _, _)
ComplianceLoop(script, attempt, tokens) ==
    LET resp == Answer(script, attempt)
        made == Append(tokens, max_tokens_plan[attempt])
        last_content == IF resp.content_none THEN <<>> ELSE resp.content
        parsed == _parse_json(last_content)
        tail == IF last_content # <<>> THEN Render(LastTail(last_content)) ELSE "<empty>"
    IN  IF resp.kind = "raise"
        THEN [raised |-> FALSE, tokens |-> made,
              ret |-> _placeholder_output("Compliance", "Compliance LLM call failed: " \o resp.msg)]
        ELSE IF parsed # None
        THEN [raised |-> FALSE, tokens |-> made, ret |-> StampAgent("Compliance", parsed)]
        ELSE IF attempt < Len(max_tokens_plan)
        THEN ComplianceLoop(script, attempt + 1, made)
        ELSE [raised |-> FALSE, tokens |-> made,
              ret |-> _placeholder_output("Compliance",
                         "Compliance JSON parsing failed after retry (finish_reason="
                         \o resp.finish_reason \o ", tail=" \o tail \o ").")]

ComplianceAgent_evaluate(script) == ComplianceLoop(script, 1, <<>>)

(***************************************************************************)
(* ReviewOutput: the pydantic contract of one verdict                      *)
(***************************************************************************)
ScoreMin == 1
ScoreMax == 10
SeverityMin == 1
SeverityMax == 10

\* hundredths of a JSON number given for a float field
Hundredths(x) == IF x.t = "int" THEN 100 * x.v ELSE x.v

IsStr(x) == x.t = "str"
IsStrList(x) == x.t = "list" /\ \A i \in DOMAIN x.v : IsStr(x.v[i])

\* ReviewRisk(**x) validates
ReviewRisk_valid(x) ==
    /\ x.t = "dict"
    /\ {"type", "severity", "evidence"} \subseteq DOMAIN x.v
    /\ IsStr(x.v["type"])
    /\ x.v["severity"].t = "int"
    /\ x.v["severity"].v >= SeverityMin
    /\ x.v["severity"].v <= SeverityMax
    /\ IsStr(x.v["evidence"])

\* a contract whose score field has no range
ReviewOutput_valid_unbounded_score(raw) ==
    /\ {"agent", "thesis", "score", "confidence", "blocked", "apga_impact_view"}
           \subseteq DOMAIN raw
    /\ IsStr(raw["agent"])
    /\ IsStr(raw["thesis"])
    /\ raw["score"].t = "int"
    /\ raw["confidence"].t \in {"int", "float"}
    /\ Hundredths(raw["confidence"]) >= 0
    /\ Hundredths(raw["confidence"]) <= 100
    /\ raw["blocked"].t = "bool"
    /\ IsStr(raw["apga_impact_view"])
    /\ "blockers" \in DOMAIN raw => IsStrList(raw["blockers"])
    /\ "risks" \in DOMAIN raw =>
           /\ raw["risks"].t = "list"
           /\ \A i \in DOMAIN raw["risks"].v : ReviewRisk_valid(raw["risks"].v[i])
    /\ "required_changes" \in DOMAIN raw => IsStrList(raw["required_changes"])
    /\ "approval_conditions" \in DOMAIN raw => IsStrList(raw["approval_conditions"])
    /\ "governance_checks_met" \in DOMAIN raw =>
           /\ raw["governance_checks_met"].t = "dict"
           /\ \A k \in DOMAIN raw["governance_checks_met"].v :
                  raw["governance_checks_met"].v[k].t = "bool"

\* ReviewOutput(**raw) validates
ReviewOutput_valid(raw) ==
    /\ {"agent", "thesis", "score", "confidence", "blocked", "apga_impact_view"}
           \subseteq DOMAIN raw
    /\ IsStr(raw["agent"])
    /\ IsStr(raw["thesis"])
    /\ raw["score"].t = "int"
    /\ raw["score"].v >= ScoreMin
    /\ raw["score"].v <= ScoreMax
    /\ raw["confidence"].t \in {"int", "float"}
    /\ Hundredths(raw["confidence"]) >= 0
    /\ Hundredths(raw["confidence"]) <= 100
    /\ raw["blocked"].t = "bool"
    /\ IsStr(raw["apga_impact_view"])
    /\ "blockers" \in DOMAIN raw => IsStrList(raw["blockers"])
    /\ "risks" \in DOMAIN raw =>
           /\ raw["risks"].t = "list"
           /\ \A i \in DOMAIN raw["risks"].v : ReviewRisk_valid(raw["risks"].v[i])
    /\ "required_changes" \in DOMAIN raw => IsStrList(raw["required_changes"])
    /\ "approval_conditions" \in DOMAIN raw => IsStrList(raw["approval_conditions"])
    /\ "governance_checks_met" \in DOMAIN raw =>
           /\ raw["governance_checks_met"].t = "dict"
           /\ \A k \in DOMAIN raw["governance_checks_met"].v :
                  raw["governance_checks_met"].v[k].t = "bool"

\* the plain values of a validated list of strings
Strings(x) == [i \in DOMAIN x.v |-> x.v[i].v]

\* the model instance ReviewOutput(**raw) of a payload that validates
ReviewOutput_new(raw) ==
    [agent |-> raw["agent"].v,
     thesis |-> raw["thesis"].v,
     score |-> raw["score"].v,
     confidence |-> Hundredths(raw["confidence"]),
     blocked |-> raw["blocked"].v,
     blockers |-> Strings(DictGet(raw, "blockers", JList(<<>>))),
     risks |-> LET rs == DictGet(raw, "risks", JList(<<>>)).v
               IN  [i \in DOMAIN rs |-> [type |-> rs[i].v["type"].v,
                                         severity |-> rs[i].v["severity"].v,
                                         evidence |-> rs[i].v["evidence"].v]],
     required_changes |-> Strings(DictGet(raw, "required_changes", JList(<<>>))),
     approval_conditions |-> Strings(DictGet(raw, "approval_conditions", JList(<<>>))),
     apga_impact_view |-> raw["apga_impact_view"].v,
     governance_checks_met |->
         LET g == DictGet(raw, "governance_checks_met", JDict(<<>>)).v
         IN  [k \in DOMAIN g |-> g[k].v]]

\* the field constraints of the contract, on a model instance
ReviewOutput_constraints(r) ==
    /\ r.score \in ScoreMin..ScoreMax
    /\ r.confidence \in 0..100
    /\ r.blocked \in BOOLEAN
    /\ \A i \in DOMAIN r.risks : r.risks[i].severity \in SeverityMin..SeverityMax

\* a fallback verdict that does not block
_invalid_review_fallback_unblocked(agent_name, reason) ==
    [agent |-> agent_name,
     thesis |-> agent_name \o " review output was invalid and requires manual follow-up.",
     score |-> 1,
     confidence |-> 0,
     blocked |-> FALSE,
     blockers |-> <<"Invalid review output schema: " \o reason>>,
     risks |-> <<[type |-> "schema_validation",
                  severity |-> 9,
                  evidence |-> "LLM response did not match required ReviewOutput schema."]>>,
     required_changes |-> <<"Regenerate review with strict JSON schema compliance.">>,
     approval_conditions |-> <<>>,
     apga_impact_view |-> "Unknown due to invalid review output.",
     governance_checks_met |-> <<>>]

\* _invalid_review_fallback
_invalid_review_fallback(agent_name, reason) ==
    [agent |-> agent_name,
     thesis |-> agent_name \o " review output was invalid and requires manual follow-up.",
     score |-> 1,
     confidence |-> 0,
     blocked |-> TRUE,
     blockers |-> <<"Invalid review output schema: " \o reason>>,
     risks |-> <<[type |-> "schema_validation",
                  severity |-> 9,
                  evidence |-> "LLM response did not match required ReviewOutput schema."]>>,
     required_changes |-> <<"Regenerate review with strict JSON schema compliance.">>,
     approval_conditions |-> <<>>,
     apga_impact_view |-> "Unknown due to invalid review output.",
     governance_checks_met |-> <<>>]

\* the reviewer adapters of a workflow, by their key in the reviews map
ReviewerKeys == <<"ceo", "cfo", "cto", "compliance">>
AgentName(key) ==
    CASE key = "ceo" -> "CEO"
      [] key = "cfo" -> "CFO"
      [] key = "cto" -> "CTO"
      [] key = "compliance" -> "Compliance"

\* agent.evaluate(agent_context), the provider answering as the script says
Evaluate(key, script) ==
    CASE key = "ceo" -> CEOAgent_evaluate(script)
      [] key = "cfo" -> CFOAgent_evaluate(script)
      [] key = "cto" -> CTOAgent_evaluate(script)
      [] key = "compliance" -> ComplianceAgent_evaluate(script)

_get_agent_review_output(key, script) ==
    LET agent_name == AgentName(key)
        ev == Evaluate(key, script)
    IN  [tokens |-> ev.tokens,
         raised |-> ev.raised,
         raw |-> ev.ret,
         review |->
             IF ev.raised
             THEN _invalid_review_fallback(agent_name, "agent evaluate call failed")
             ELSE IF ReviewOutput_valid(ev.ret)
             THEN ReviewOutput_new(ev.ret)
             ELSE _invalid_review_fallback(agent_name, "pydantic validation failed")]

(***************************************************************************)
(* Synthesis adapter                                                       *)
(***************************************************************************)
MaxTokensChair == 500

ChairFallback(summary) ==
    [executive_summary |-> JStr(summary),
     final_recommendation |-> JStr("Challenged"),
     conflicts |-> JList(<<>>),
     blockers |-> JList(<<>>),
     required_revisions |-> JList(<<>>)]

allowed_recommendations == {JStr("Approved"), JStr("Challenged"), JStr("Blocked")}

\* a tail that returns the parsed recommendation as it came
ChairCoerce_unchecked(parsed) ==
    IF parsed.t # "dict"
    THEN ChairFallback("Chair synthesis failed due to LLM error.")
    ELSE parsed.v

\* the tail of ChairpersonAgent.evaluate once a value was parsed
ChairCoerce(parsed) ==
    IF parsed.t # "dict"
    THEN ChairFallback("Chair synthesis failed due to LLM error.")
    ELSE IF DictGet(parsed.v, "final_recommendation", None) \notin allowed_recommendations
    THEN DictSet(parsed.v, "final_recommendation", JStr("Challenged"))
    ELSE parsed.v

ChairpersonAgent_evaluate(script) ==
    LET resp == Answer(script, 1)
        content == resp.content
        start_index == find(content, "{")
        end_index == rfind(content, "}")
        strict == json_loads(content)
        extracted == json_loads(SubSeq(content, start_index, end_index))
        ret ==
            IF resp.kind = "raise"
            THEN ChairFallback("Chair synthesis failed due to LLM error.")
            ELSE IF NotContent(resp)
            THEN ChairFallback("Chair synthesis pending LLM output.")
            ELSE IF ~strict.err
            THEN ChairCoerce(strict.val)
            ELSE IF start_index # 0 /\ end_index # 0 /\ start_index < end_index
            THEN IF extracted.err
                 THEN ChairFallback("Chair synthesis failed due to malformed JSON output from LLM.")
                 ELSE ChairCoerce(extracted.val)
            ELSE ChairFallback("Chair synthesis failed due to no valid JSON structure from LLM.")
    IN  [raised |-> FALSE, ret |-> ret, tokens |-> <<MaxTokensChair>>]

(***************************************************************************)
(* Governance inference (gates.py).  A body text is seen through the three *)
(* tests the function makes of it: which phrases text.lower() contains,    *)
(* the matches of the option pattern and the matches of the numeric        *)
(* pattern.                                                                *)
(***************************************************************************)
REQUIRED_BOOLEAN_GATES ==
    <<"Strategic Alignment Brief", "Problem Quantified", ">=3 Options Evaluated",
      "Success Metrics Defined", "Leading Indicators Defined", "Kill Criteria Defined">>

GovernanceChecks ==
    {"Strategic Alignment Brief", "Problem Quantified", ">=3 Options Evaluated",
     "Success Metrics Defined", "Leading Indicators Defined", "Kill Criteria Defined",
     "Option Trade-offs Explicit", "Risk Matrix Completed", "Financial Model Included",
     "Downside Modeled", "Compliance Reviewed", "Decision Memo Written",
     "Root Cause Done", "Assumptions Logged"}

\* "<gate_name.lower()>: no"
ExplicitNoPhrase(gate_name) ==
    CASE gate_name = "Strategic Alignment Brief" -> "strategic alignment brief: no"
      [] gate_name = "Problem Quantified" -> "problem quantified: no"
      [] gate_name = ">=3 Options Evaluated" -> ">=3 options evaluated: no"
      [] gate_name = "Success Metrics Defined" -> "success metrics defined: no"
      [] gate_name = "Leading Indicators Defined" -> "leading indicators defined: no"
      [] gate_name = "Kill Criteria Defined" -> "kill criteria defined: no"
      [] gate_name = "Option Trade-offs Explicit" -> "option trade-offs explicit: no"
      [] gate_name = "Risk Matrix Completed" -> "risk matrix completed: no"
      [] gate_name = "Financial Model Included" -> "financial model included: no"
      [] gate_name = "Downside Modeled" -> "downside modeled: no"
      [] gate_name = "Compliance Reviewed" -> "compliance reviewed: no"
      [] gate_name = "Decision Memo Written" -> "decision memo written: no"
      [] gate_name = "Root Cause Done" -> "root cause done: no"
      [] gate_name = "Assumptions Logged" -> "assumptions logged: no"

\* the trigger phrases of a check, as a list of groups: every group needs a hit
TriggerGroups(gate_name) ==
    CASE gate_name = "Strategic Alignment Brief" ->
             <<{"strategic context", "strategic alignment", "objective supported"}>>
      [] gate_name = "Problem Quantified" ->
             <<{"problem framing", "quantified impact", "problem statement"}>>
      [] gate_name = ">=3 Options Evaluated" -> <<{"options evaluated", "chosen option"}>>
      [] gate_name = "Success Metrics Defined" ->
             <<{"success metrics", "primary metric", "kpi impact"}>>
      [] gate_name = "Leading Indicators Defined" -> <<{"leading indicators"}>>
      [] gate_name = "Kill Criteria Defined" -> <<{"kill criteria", "we will stop or pivot"}>>
      [] gate_name = "Option Trade-offs Explicit" -> <<{"trade-offs", "trade offs"}>>
      [] gate_name = "Risk Matrix Completed" ->
             <<{"risk matrix"}, {"mitigation", "probability", "impact"}>>
      [] gate_name = "Financial Model Included" ->
             <<{"financial model", "payback period", "revenue impact", "cost impact"}>>
      [] gate_name = "Downside Modeled" -> <<{"downside", "risk-adjusted", "sensitivity"}>>
      [] gate_name = "Compliance Reviewed" ->
             <<{"compliance review", "compliance reviewed", "legal review", "regulatory review"}>>
      [] gate_name = "Decision Memo Written" -> <<{"executive summary", "final decision"}>>
      [] gate_name = "Root Cause Done" -> <<{"root cause"}>>
      [] gate_name = "Assumptions Logged" -> <<{"assumptions", "confidence level"}>>

MinNumericMatches == 3
MinOptionMatches == 3

\* the set of distinct values of a list
Distinct(seq) == {seq[i] : i \in DOMAIN seq}

\* an inference that does not look for "<name>: no"
infer_governance_checks_from_text_no_override(body_text) ==
    LET has_any(phrases) == \E phrase \in phrases : phrase \in body_text.contains
        triggered(gate_name) ==
            \A i \in DOMAIN TriggerGroups(gate_name) : has_any(TriggerGroups(gate_name)[i])
    IN  [gate_name \in GovernanceChecks |->
            /\ triggered(gate_name)
            /\ gate_name = "Problem Quantified" =>
                   Len(body_text.numeric_matches) >= MinNumericMatches
            /\ gate_name = ">=3 Options Evaluated" =>
                   Cardinality(Distinct(body_text.option_matches)) >= MinOptionMatches]

infer_governance_checks_from_text(body_text) ==
    LET has_any(phrases) == \E phrase \in phrases : phrase \in body_text.contains
        explicitly_no(gate_name) == ExplicitNoPhrase(gate_name) \in body_text.contains
        triggered(gate_name) ==
            \A i \in DOMAIN TriggerGroups(gate_name) : has_any(TriggerGroups(gate_name)[i])
    IN  [gate_name \in GovernanceChecks |->
            /\ ~explicitly_no(gate_name)
            /\ triggered(gate_name)
            /\ gate_name = "Problem Quantified" =>
                   Len(body_text.numeric_matches) >= MinNumericMatches
            /\ gate_name = ">=3 Options Evaluated" =>
                   Cardinality(Distinct(body_text.option_matches)) >= MinOptionMatches]

\* bool(x) of a JSON value
Truthy(x) ==
    CASE x.t = "null" -> FALSE
      [] x.t = "bool" -> x.v
      [] x.t \in {"int", "float"} -> x.v # 0
      [] x.t = "str" -> x.v # ""
      [] x.t \in {"list", "dict"} -> x.v # <<>>

\* page_properties.get(name): the property dict, {} standing for None
PropertyGet(page_properties, name) ==
    IF name \in DOMAIN page_properties THEN page_properties[name] ELSE <<>>

_checkbox_true(prop) == prop # <<>> /\ Truthy(DictGet(prop, "checkbox", None))
_number_present(prop) == prop # <<>> /\ DictGet(prop, "number", None) # None
_select_present(prop) ==
    /\ prop # <<>>
    /\ Truthy(DictGet(prop, "select", None))
    /\ Truthy(DictGet(DictGet(prop, "select", None).v, "name", None))

\* the items of a list that satisfy a test, in order
RECURSIVE SelectSeqBy(_, _)
SelectSeqBy(seq, keep) ==
    IF seq = <<>> THEN <<>>
    ELSE (IF seq[1] \in keep THEN <<seq[1]>> ELSE <<>>) \o SelectSeqBy(Tail(seq), keep)

\* a gate evaluation that looks at the checkboxes only
evaluate_required_gates_checkbox_only(page_properties, inferred_checks) ==
    LET scalars ==
            (IF _number_present(PropertyGet(page_properties, "Baseline"))
             THEN <<>> ELSE <<"Baseline">>)
            \o (IF _number_present(PropertyGet(page_properties, "Target"))
                THEN <<>> ELSE <<"Target">>)
            \o (IF _select_present(PropertyGet(page_properties, "Time Horizon"))
                THEN <<>> ELSE <<"Time Horizon">>)
        unmet == {REQUIRED_BOOLEAN_GATES[i] : i \in
                     {j \in DOMAIN REQUIRED_BOOLEAN_GATES :
                         ~_checkbox_true(PropertyGet(page_properties,
                                                     REQUIRED_BOOLEAN_GATES[j]))}}
    IN  scalars \o SelectSeqBy(REQUIRED_BOOLEAN_GATES, unmet)

evaluate_required_gates(page_properties, inferred_checks) ==
    LET scalars ==
            (IF _number_present(PropertyGet(page_properties, "Baseline"))
             THEN <<>> ELSE <<"Baseline">>)
            \o (IF _number_present(PropertyGet(page_properties, "Target"))
                THEN <<>> ELSE <<"Target">>)
            \o (IF _select_present(PropertyGet(page_properties, "Time Horizon"))
                THEN <<>> ELSE <<"Time Horizon">>)
        unmet == {REQUIRED_BOOLEAN_GATES[i] : i \in
                     {j \in DOMAIN REQUIRED_BOOLEAN_GATES :
                         LET gate_name == REQUIRED_BOOLEAN_GATES[j]
                             checkbox_set == _checkbox_true(PropertyGet(page_properties, gate_name))
                             inferred_set == inferred_checks[gate_name]
                         IN  ~(checkbox_set \/ inferred_set)}}
    IN  scalars \o SelectSeqBy(REQUIRED_BOOLEAN_GATES, unmet)

(***************************************************************************)
(* The document store (Notion): the decision page, the executive reviews   *)
(* database and the PRD database.  A call to the store succeeds ("ok") or  *)
(* raises ("raise"); which one is the environment's choice.                *)
(***************************************************************************)
EXECUTIVE_REVIEWS_DB_ID == "executive-reviews-db"
PRDS_DB_ID == "prds-db"

NumberProp(n) == [type |-> JStr("number"), number |-> JInt(n)]
SelectProp(name) == [type |-> JStr("select"), select |-> JDict([name |-> JStr(name)])]
CheckboxProp(b) == [type |-> JStr("checkbox"), checkbox |-> JBool(b)]
StatusProp(name) == [type |-> JStr("status"), status |-> JDict([name |-> JStr(name)])]
TitleProp(text) ==
    [type |-> JStr("title"), title |-> JList(<<JDict([plain_text |-> JStr(text)])>>)]

_status_property_payload(status_property, status_value) ==
    LET prop_type == DictGet(status_property, "type", None)
    IN  IF prop_type = JStr("select")
        THEN [shape |-> "select", name |-> status_value]
        ELSE [shape |-> "status", name |-> status_value]

\* a retry that sends the first payload shape once more
_update_page_status_same_shape(page_properties, status_value, results) ==
    LET primary_payload ==
            _status_property_payload(PropertyGet(page_properties, "Status"), status_value)
    IN  IF results[1] = "ok"
        THEN [raised |-> FALSE, attempts |-> <<primary_payload>>]
        ELSE [raised |-> results[2] # "ok", attempts |-> <<primary_payload, primary_payload>>]

\* _update_page_status, the store answering the attempts as results says
_update_page_status(page_properties, status_value, results) ==
    LET primary_payload ==
            _status_property_payload(PropertyGet(page_properties, "Status"), status_value)
        fallback_payload ==
            IF primary_payload.shape = "status"
            THEN [shape |-> "select", name |-> status_value]
            ELSE [shape |-> "status", name |-> status_value]
    IN  IF results[1] = "ok"
        THEN [raised |-> FALSE, attempts |-> <<primary_payload>>]
        ELSE [raised |-> results[2] # "ok", attempts |-> <<primary_payload, fallback_payload>>]

StatusResults == {<<"ok", "ok">>, <<"raise", "ok">>, <<"raise", "raise">>}

\* the page after a successful write of the Status property
StoreSetStatus(store, status_value) ==
    [store EXCEPT !.properties =
        DictSet(@, "Status",
                LET old == PropertyGet(@, "Status")
                    kind == IF DictGet(old, "type", None) = JStr("select")
                            THEN "select" ELSE "status"
                IN  [k \in {"type", kind} |->
                        IF k = "type" THEN JStr(kind)
                        ELSE JDict([name |-> JStr(status_value)])]),
                  !.status_writes = Append(@, status_value)]

\* a write-back that also unticks every checkbox it does not tick
StoreSetCheckboxes_unticking_others(store, fields) ==
    [store EXCEPT !.properties =
        [n \in DOMAIN @ |-> IF n \in fields THEN DictSet(@[n], "checkbox", JBool(TRUE))
                            ELSE IF "checkbox" \in DOMAIN @[n]
                            THEN DictSet(@[n], "checkbox", JBool(FALSE))
                            ELSE @[n]]]

\* the page after a successful pages.update(properties=checkbox_updates)
StoreSetCheckboxes(store, fields) ==
    [store EXCEPT !.properties =
        [n \in DOMAIN @ |-> IF n \in fields THEN DictSet(@[n], "checkbox", JBool(TRUE))
                            ELSE @[n]]]

\* the Status name the store holds for the page
StoreStatus(store) ==
    LET p == PropertyGet(store.properties, "Status")
        kind == IF DictGet(p, "type", None) = JStr("select") THEN "select" ELSE "status"
    IN  IF kind \in DOMAIN p THEN p[kind].v["name"].v ELSE ""

\* position of the first page of a database with the given title, 0 if none
QueryByTitle(pages, title) ==
    LET hits == {i \in DOMAIN pages : pages[i].title = title}
    IN  IF hits = {} THEN 0 ELSE CHOOSE i \in hits : \A j \in hits : i <= j

\* an upsert that never looks for an existing record
_upsert_notion_review_create_only(store, page_id, agent_name, review_output) ==
    LET stable_key == page_id \o ":" \o agent_name
        properties == [title |-> stable_key,
                       agent_type |-> agent_name,
                       score |-> review_output.score,
                       blocked |-> review_output.blocked,
                       decision |-> page_id]
    IN  [store EXCEPT !.reviews = Append(@, properties)]

\* _upsert_notion_review when no call to the store raises
_upsert_notion_review(store, page_id, agent_name, review_output) ==
    LET stable_key == page_id \o ":" \o agent_name
        existing == QueryByTitle(store.reviews, stable_key)
        properties == [title |-> stable_key,
                       agent_type |-> agent_name,
                       score |-> review_output.score,
                       blocked |-> review_output.blocked,
                       decision |-> page_id]
    IN  IF existing # 0
        THEN [store EXCEPT !.reviews[existing] = properties]
        ELSE [store EXCEPT !.reviews = Append(@, properties)]

\* an error that says what failed but not for which document, role and database
ReviewPersistError_terse(page_id, agent_name) ==
    [exc |-> "RuntimeError", message |-> "Failed to persist executive review to Notion."]

\* the RuntimeError _upsert_notion_review raises from any failure in its body
ReviewPersistError(page_id, agent_name) ==
    [exc |-> "RuntimeError",
     message |-> "Failed to persist executive review to Notion (decision_id=" \o page_id
                 \o ", agent=" \o agent_name
                 \o ", database_id=" \o EXECUTIVE_REVIEWS_DB_ID \o ")."]

\* _create_notion_prd_page when no call to the store raises
_create_notion_prd_page(store, name, page_id, prd_output) ==
    LET prd_title == "PRD -- " \o name
        existing == QueryByTitle(store.prds, prd_title)
        page == [title |-> prd_title, status |-> "Draft", children |-> prd_output]
    IN  IF existing # 0
        THEN [store EXCEPT !.prds[existing] = page]
        ELSE [store EXCEPT !.prds = Append(@, page)]

PrdPersistError(page_id, name) ==
    [exc |-> "RuntimeError",
     message |-> "Failed to persist PRD page to Notion (decision_id=" \o page_id
                 \o ", decision_name=" \o name
                 \o ", database_id=" \o PRDS_DB_ID \o ")."]

NoError == [exc |-> "none", message |-> ""]
NotionError == [exc |-> "APIResponseError", message |-> "notion request failed"]
FetchError == [exc |-> "APIResponseError", message |-> "document fetch failed"]
ValidationError == [exc |-> "ValidationError", message |-> "ReviewOutput validation failed"]
TypeError == [exc |-> "TypeError", message |-> "object is not iterable"]

(***************************************************************************)
(* Inputs: decision documents and provider behaviours                      *)
(***************************************************************************)
\* answers a scripted provider is prepared with
MaxScriptLen == 2

\* the body text of test_inferred_gates_satisfy_required_sections
CompleteText ==
    [contains |-> {"strategic context", "objective supported", "problem framing",
                   "quantified impact", "options evaluated", "chosen option",
                   "success metrics", "primary metric", "kpi impact",
                   "leading indicators", "kill criteria", "we will stop or pivot"},
     option_matches |-> <<"option a", "option b", "option c">>,
     numeric_matches |-> <<"5", "8", "120000", "4">>]

\* the body text of test_explicit_no_overrides_inference
ExplicitNoText ==
    [contains |-> {"strategic context", "objective supported", "problem framing",
                   "quantified impact", "problem quantified: no", "options evaluated",
                   "success metrics", "kpi impact", "leading indicators",
                   "kill criteria", "we will stop or pivot"},
     option_matches |-> <<"option a", "option b", "option c">>,
     numeric_matches |-> <<"5", "8", "120000">>]

ScalarProps ==
    [n \in {"Baseline", "Target", "Time Horizon", "Status", "Decision Name"} |->
        CASE n = "Baseline" -> NumberProp(100)
          [] n = "Target" -> NumberProp(120)
          [] n = "Time Horizon" -> SelectProp("Quarterly")
          [] n = "Status" -> StatusProp("Proposed")
          [] n = "Decision Name" -> TitleProp("Checkout redesign")]

\* every required gate ticked except Problem Quantified
ExplicitNoProps ==
    [n \in (DOMAIN ScalarProps) \cup Distinct(REQUIRED_BOOLEAN_GATES) |->
        IF n \in DOMAIN ScalarProps THEN ScalarProps[n]
        ELSE CheckboxProp(n # "Problem Quantified")]

\* no Target, a select-typed Status, no name, two unticked boxes the text supports
AutocheckProps ==
    [n \in {"Baseline", "Time Horizon", "Status", "Kill Criteria Defined",
            "Success Metrics Defined", "Risk Matrix Completed"} |->
        CASE n = "Baseline" -> NumberProp(100)
          [] n = "Time Horizon" -> SelectProp("Quarterly")
          [] n = "Status" -> [type |-> JStr("select"),
                              select |-> JDict([name |-> JStr("Proposed")])]
          [] n = "Kill Criteria Defined" -> CheckboxProp(FALSE)
          [] n = "Success Metrics Defined" -> CheckboxProp(FALSE)
          [] n = "Risk Matrix Completed" -> CheckboxProp(FALSE)]

Documents ==
    {[properties |-> ScalarProps, body_text |-> CompleteText],
     [properties |-> ExplicitNoProps, body_text |-> ExplicitNoText],
     [properties |-> AutocheckProps, body_text |-> CompleteText]}

\* the documents whole runs are made on
RunDocuments ==
    {[properties |-> ScalarProps, body_text |-> CompleteText],
     [properties |-> AutocheckProps, body_text |-> CompleteText]}

\* the payload of tests/test_agents_json_fallback.py
_review_payload(score, blocked) ==
    [thesis |-> JStr("Valid review"),
     score |-> JInt(score),
     confidence |-> JFlt(80),
     blocked |-> JBool(blocked),
     blockers |-> JList(<<>>),
     risks |-> JList(<<JDict([type |-> JStr("execution"),
                              severity |-> JInt(4),
                              evidence |-> JStr("Manageable risk.")])>>),
     required_changes |-> JList(<<>>),
     approval_conditions |-> JList(<<>>),
     apga_impact_view |-> JStr("Positive"),
     governance_checks_met |-> JDict([k \in {"Compliance Reviewed"} |-> JBool(TRUE)])]

\* a payload without one of its keys
Without(d, key) == [k \in (DOMAIN d) \ {key} |-> d[k]]

Json(d) == <<LB, Members(d), RB>>
Embedded(d) == <<Prose("prefix text "), LB, Members(d), RB, Prose(" trailing text")>>
NotJson == <<Prose("not-json-at-all")>>

ValidPayloads ==
    {_review_payload(sc, b) : sc \in {1, 7, 9, 10}, b \in BOOLEAN}
    \cup {DictSet(_review_payload(8, FALSE), "agent", JStr("Impostor"))}

InvalidPayloads ==
    {[_review_payload(8, FALSE) EXCEPT !.score = JInt(0)],
     [_review_payload(8, FALSE) EXCEPT !.score = JInt(11)],
     [_review_payload(8, FALSE) EXCEPT !.confidence = JFlt(150)],
     [_review_payload(8, FALSE) EXCEPT !.confidence = JFlt(-10)],
     [_review_payload(8, FALSE) EXCEPT !.risks =
         JList(<<JDict([type |-> JStr("execution"), severity |-> JInt(11),
                        evidence |-> JStr("Manageable risk.")])>>)],
     [_review_payload(8, FALSE) EXCEPT !.risks =
         JList(<<JDict([type |-> JStr("execution"), severity |-> JInt(0),
                        evidence |-> JStr("Manageable risk.")])>>)],
     [_review_payload(8, FALSE) EXCEPT !.blockers = JStr("none")],
     Without(_review_payload(8, FALSE), "thesis"),
     Without(_review_payload(8, FALSE), "score"),
     Without(_review_payload(8, FALSE), "blocked")}

\* everything a provider call for a reviewer is made to answer
ReviewerBehaviours ==
    {Raise("connection reset"), ReplyNone, Reply(<<>>, "stop"),
     Reply(NotJson, "stop"), Reply(<<Prose("malformed-json")>>, "length"),
     Reply(<<LB, Prose("oops"), RB>>, "length"),
     Reply(<<RB, Prose(" then "), LB>>, "stop"),
     Reply(<<NUL>>, "stop"), Reply(<<LSQ, RSQ>>, "stop"), Reply(<<LB, RB>>, "stop")}
    \cup {Reply(Json(d), "stop") : d \in ValidPayloads \cup InvalidPayloads}
    \cup {Reply(Embedded(d), "stop") : d \in {_review_payload(9, FALSE)}}
    \cup {Reply(<<LSQ>> \o Json(_review_payload(9, FALSE)) \o <<RSQ>>, "stop"),
          Reply(<<Prose("Here is the review: ")>> \o Json(_review_payload(7, TRUE)), "stop")}
    \cup {Reply(Json(_review_payload(9, FALSE)) \o <<Prose(" and ")>>
                \o Json(_review_payload(1, FALSE)), "stop")}

\* the answers a whole run is driven with
RunReviewerBehaviours ==
    {Raise("connection reset"),
     Reply(NotJson, "stop"),
     Reply(Json(_review_payload(9, FALSE)), "stop"),
     Reply(Json(_review_payload(1, FALSE)), "stop"),
     Reply(Json(_review_payload(10, TRUE)), "stop"),
     Reply(Json([_review_payload(8, FALSE) EXCEPT !.score = JInt(11)]), "stop")}

_synthesis_payload(recommendation) ==
    [executive_summary |-> JStr("Board summary"),
     final_recommendation |-> JStr(recommendation),
     conflicts |-> JList(<<>>),
     blockers |-> JList(<<JStr("Open legal question")>>),
     required_revisions |-> JList(<<>>)]

RunChairBehaviours ==
    {Raise("connection reset"),
     Reply(NotJson, "stop"),
     Reply(Json(_synthesis_payload("Approved")), "stop"),
     Reply(Json(_synthesis_payload("Blocked")), "stop"),
     Reply(Json(_synthesis_payload("Maybe")), "stop"),
     Reply(Json([_synthesis_payload("Approved") EXCEPT !.blockers = None]), "stop"),
     Reply(Json([_synthesis_payload("Approved") EXCEPT !.blockers = JStr("none")]), "stop")}

(***************************************************************************)
(* The decision state machine (BoardroomDecisionWorkflow)                  *)
(***************************************************************************)
AgentNames == {"CEO", "CFO", "CTO", "Compliance", "Chairperson"}

CHECKBOX_FIELDS ==
    <<">=3 Options Evaluated", "Success Metrics Defined", "Leading Indicators Defined",
      "Kill Criteria Defined", "Option Trade-offs Explicit", "Risk Matrix Completed",
      "Financial Model Included", "Downside Modeled", "Compliance Reviewed",
      "Decision Memo Written", "Root Cause Done", "Assumptions Logged">>

\* DecisionSnapshot.model_dump(): a new dict with the fields of the model
model_dump(snapshot) == [field \in DOMAIN snapshot |-> snapshot[field]]

\* the AgentContext _get_agent_review_output hands to a reviewer adapter
ReviewerContext(snapshot, missing) ==
    [snapshot |-> IF snapshot # None THEN model_dump(snapshot) ELSE <<>>,
     memory_context |-> [missing_sections |-> missing,
                         governance_checkbox_fields |-> CHECKBOX_FIELDS]]

\* a synthesize step that adds the reviewer outputs to the stored snapshot itself
ChairpersonContext_in_place(snapshot, revs) ==
    LET dumps == [i \in DOMAIN ReviewerKeys |-> revs[ReviewerKeys[i]]]
        chairperson_snapshot ==
            IF snapshot # None
            THEN [field \in (DOMAIN snapshot) \cup {"reviews"} |->
                     IF field = "reviews" THEN dumps ELSE snapshot[field]]
            ELSE [field \in {"reviews"} |-> dumps]
    IN  [context |-> [snapshot |-> chairperson_snapshot, memory_context |-> <<>>],
         stored |-> IF snapshot # None THEN chairperson_snapshot ELSE snapshot]

\* the first lines of _synthesize_node: the AgentContext handed to the synthesis
\* adapter, whose snapshot is a dump with the reviewer outputs added under "reviews",
\* and the snapshot the state holds after these lines
ChairpersonContext(snapshot, revs) ==
    LET dumps == [i \in DOMAIN ReviewerKeys |-> revs[ReviewerKeys[i]]]
        dumped == IF snapshot # None THEN model_dump(snapshot) ELSE <<>>
        chairperson_snapshot ==
            [field \in (DOMAIN dumped) \cup {"reviews"} |->
                IF field = "reviews" THEN dumps ELSE dumped[field]]
    IN  [context |-> [snapshot |-> chairperson_snapshot, memory_context |-> <<>>],
         stored |-> snapshot]

\* the provider calls of one evaluate, as logged: budget and answer of each, and
\* the context the evaluate was given
CallLog(tokens, script, agent_context) ==
    [i \in DOMAIN tokens |-> [max_tokens |-> tokens[i], resp |-> Answer(script, i),
                              context |-> agent_context]]

\* sorted(checkbox_updates.keys()): the checks in code-point order
SortedChecks ==
    <<"Assumptions Logged", "Compliance Reviewed", "Decision Memo Written",
      "Downside Modeled", "Financial Model Included", "Kill Criteria Defined",
      "Leading Indicators Defined", "Option Trade-offs Explicit", "Problem Quantified",
      "Risk Matrix Completed", "Root Cause Done", "Strategic Alignment Brief",
      "Success Metrics Defined", ">=3 Options Evaluated">>

\* "".join(t.get("plain_text", "") for t in title)
RECURSIVE JoinPlainText(_)
JoinPlainText(items) ==
    IF items = <<>> THEN ""
    ELSE DictGet(items[1].v, "plain_text", JStr("")).v \o JoinPlainText(Tail(items))

DecisionNameOf(page_properties, page_id) ==
    LET title == DictGet(PropertyGet(page_properties, "Decision Name"), "title", JList(<<>>))
        joined == JoinPlainText(title.v)
    IN  IF joined # "" THEN joined ELSE "Untitled Decision " \o page_id

\* a build step that reports every document as ready for evaluation
BuildDecision_always_under_evaluation(fetched_properties, body_text) ==
    LET inferred_checks == infer_governance_checks_from_text(body_text)
        checkbox_updates ==
            {gate_name \in GovernanceChecks :
                /\ inferred_checks[gate_name]
                /\ gate_name \in DOMAIN fetched_properties
                /\ "checkbox" \in DOMAIN fetched_properties[gate_name]
                /\ ~Truthy(fetched_properties[gate_name]["checkbox"])}
        page_properties ==
            [n \in DOMAIN fetched_properties |->
                IF n \in checkbox_updates
                THEN DictSet(fetched_properties[n], "checkbox", JBool(TRUE))
                ELSE fetched_properties[n]]
        missing == evaluate_required_gates(page_properties, inferred_checks)
    IN  [page_properties |-> page_properties,
         checkbox_updates |-> checkbox_updates,
         missing_sections |-> missing,
         status_value |-> "Under Evaluation",
         decision_name |-> DecisionNameOf(page_properties, decision_id),
         snapshot |->
             [page_id |-> decision_id,
              properties |-> page_properties,
              section_excerpt |-> body_text,
              computed |->
                  [inferred_governance_checks |-> inferred_checks,
                   autochecked_governance_fields |->
                       SelectSeqBy(SortedChecks, checkbox_updates)]]]

\* what _build_decision_node computes from the fetched page
BuildDecision(fetched_properties, body_text) ==
    LET inferred_checks == infer_governance_checks_from_text(body_text)
        checkbox_updates ==
            {gate_name \in GovernanceChecks :
                /\ inferred_checks[gate_name]
                /\ gate_name \in DOMAIN fetched_properties
                /\ "checkbox" \in DOMAIN fetched_properties[gate_name]
                /\ ~Truthy(fetched_properties[gate_name]["checkbox"])}
        page_properties ==
            [n \in DOMAIN fetched_properties |->
                IF n \in checkbox_updates
                THEN DictSet(fetched_properties[n], "checkbox", JBool(TRUE))
                ELSE fetched_properties[n]]
        missing == evaluate_required_gates(page_properties, inferred_checks)
    IN  [page_properties |-> page_properties,
         checkbox_updates |-> checkbox_updates,
         missing_sections |-> missing,
         status_value |-> IF missing = <<>> THEN "Under Evaluation" ELSE "Incomplete",
         decision_name |-> DecisionNameOf(page_properties, decision_id),
         snapshot |->
             [page_id |-> decision_id,
              properties |-> page_properties,
              section_excerpt |-> body_text,
              computed |->
                  [inferred_governance_checks |-> inferred_checks,
                   autochecked_governance_fields |->
                       SelectSeqBy(SortedChecks, checkbox_updates)]]]

\* an except clause that logs the error and lets the run go on
Abort_swallowed(exc) ==
    /\ pc' = "executive_review"
    /\ error' = exc

\* the exception leaves the node and run()
Abort(exc) ==
    /\ pc' = "ABORTED"
    /\ error' = exc

\* the unconditional edges of _add_edges, a variant that routes the synthesis
\* step past the score step
Edge_skipping_score(node) ==
    CASE node = "START" -> "build_decision"
      [] node = "build_decision" -> "executive_review"
      [] node = "executive_review" -> "synthesize_reviews"
      [] node = "synthesize_reviews" -> "_decide_gate"
      [] node = "generate_prd" -> "persist_artifacts"
      [] node = "persist_artifacts" -> "END"

\* workflow.add_edge(node, successor)
Edge(node) ==
    CASE node = "START" -> "build_decision"
      [] node = "build_decision" -> "executive_review"
      [] node = "executive_review" -> "synthesize_reviews"
      [] node = "synthesize_reviews" -> "calculate_dqs"
      [] node = "generate_prd" -> "persist_artifacts"
      [] node = "persist_artifacts" -> "END"

\* a build step that puts the document back to "Proposed" when the checkbox write fails
_build_decision_node_reopening ==
    /\ pc = "build_decision"
    /\ trace' = Append(trace, "build_decision")
    /\ \E retrieve \in {"ok", "raise"}, blocks \in {"ok", "raise"},
          status_results \in StatusResults, checkbox_result \in {"ok", "raise"} :
          LET b == BuildDecision(notion.properties, notion.body_text)
              upd == _update_page_status(b.page_properties, b.status_value, status_results)
              after_status == StoreSetStatus(notion, b.status_value)
          IN  IF retrieve = "raise" \/ blocks = "raise"
              THEN /\ Abort(FetchError)
                   /\ UNCHANGED <<decision_snapshot, missing_sections, decision_name,
                                  status, notion>>
              ELSE IF upd.raised
              THEN /\ Abort(NotionError)
                   /\ UNCHANGED <<decision_snapshot, missing_sections, decision_name,
                                  status, notion>>
              ELSE IF b.checkbox_updates # {} /\ checkbox_result = "raise"
              THEN /\ Abort(NotionError)
                   /\ notion' = StoreSetStatus(after_status, "Proposed")
                   /\ UNCHANGED <<decision_snapshot, missing_sections, decision_name, status>>
              ELSE /\ notion' = IF b.checkbox_updates # {}
                                THEN StoreSetCheckboxes(after_status, b.checkbox_updates)
                                ELSE after_status
                   /\ decision_snapshot' = b.snapshot
                   /\ status' = "PROPOSED"
                   /\ missing_sections' = b.missing_sections
                   /\ decision_name' = b.decision_name
                   /\ pc' = Edge("build_decision")
                   /\ error' = error
    /\ UNCHANGED <<reviews, dqs, synthesis, prd, gate, calls>>
    /\ UNCHANGED adapter_vars
    /\ UNCHANGED text_vars
    /\ UNCHANGED runner_vars

_build_decision_node ==
    /\ pc = "build_decision"
    /\ trace' = Append(trace, "build_decision")
    /\ \E retrieve \in {"ok", "raise"}, blocks \in {"ok", "raise"},
          status_results \in StatusResults, checkbox_result \in {"ok", "raise"} :
          LET b == BuildDecision(notion.properties, notion.body_text)
              upd == _update_page_status(b.page_properties, b.status_value, status_results)
              after_status == StoreSetStatus(notion, b.status_value)
          IN  IF retrieve = "raise" \/ blocks = "raise"
              THEN /\ Abort(FetchError)
                   /\ UNCHANGED <<decision_snapshot, missing_sections, decision_name,
                                  status, notion>>
              ELSE IF upd.raised
              THEN /\ Abort(NotionError)
                   /\ UNCHANGED <<decision_snapshot, missing_sections, decision_name,
                                  status, notion>>
              ELSE IF b.checkbox_updates # {} /\ checkbox_result = "raise"
              THEN /\ Abort(NotionError)
                   /\ notion' = after_status
                   /\ UNCHANGED <<decision_snapshot, missing_sections, decision_name, status>>
              ELSE /\ notion' = IF b.checkbox_updates # {}
                                THEN StoreSetCheckboxes(after_status, b.checkbox_updates)
                                ELSE after_status
                   /\ decision_snapshot' = b.snapshot
                   /\ status' = "PROPOSED"
                   /\ missing_sections' = b.missing_sections
                   /\ decision_name' = b.decision_name
                   /\ pc' = Edge("build_decision")
                   /\ error' = error
    /\ UNCHANGED <<reviews, dqs, synthesis, prd, gate, calls>>
    /\ UNCHANGED adapter_vars
    /\ UNCHANGED text_vars
    /\ UNCHANGED runner_vars

\* a review step that stores the first two verdicts only
_executive_review_node_partial ==
    /\ pc = "executive_review"
    /\ trace' = Append(trace, "executive_review")
    /\ \E ceo \in RunReviewerBehaviours, cfo \in RunReviewerBehaviours,
          cto \in RunReviewerBehaviours,
          compliance \in [1..MaxScriptLen -> RunReviewerBehaviours] :
          LET script == [k \in Distinct(ReviewerKeys) |->
                            CASE k = "ceo" -> <<ceo>>
                              [] k = "cfo" -> <<cfo>>
                              [] k = "cto" -> <<cto>>
                              [] k = "compliance" -> compliance]
              out == [k \in Distinct(ReviewerKeys) |-> _get_agent_review_output(k, script[k])]
          IN  /\ reviews' = [k \in {"ceo", "cfo"} |-> out[k].review]
              /\ calls' = [a \in AgentNames |->
                              IF \E k \in Distinct(ReviewerKeys) : AgentName(k) = a
                              THEN LET k == CHOOSE k \in Distinct(ReviewerKeys) : AgentName(k) = a
                                   IN  calls[a] \o CallLog(out[k].tokens, script[k],
                                                           ReviewerContext(decision_snapshot,
                                                                           missing_sections))
                              ELSE calls[a]]
    /\ status' = "REVIEWING"
    /\ pc' = Edge("executive_review")
    /\ UNCHANGED <<decision_snapshot, dqs, synthesis, prd, missing_sections, decision_name,
                   gate, notion, error>>
    /\ UNCHANGED adapter_vars
    /\ UNCHANGED text_vars
    /\ UNCHANGED runner_vars

_executive_review_node ==
    /\ pc = "executive_review"
    /\ trace' = Append(trace, "executive_review")
    /\ \E ceo \in RunReviewerBehaviours, cfo \in RunReviewerBehaviours,
          cto \in RunReviewerBehaviours,
          compliance \in [1..MaxScriptLen -> RunReviewerBehaviours] :
          LET script == [k \in Distinct(ReviewerKeys) |->
                            CASE k = "ceo" -> <<ceo>>
                              [] k = "cfo" -> <<cfo>>
                              [] k = "cto" -> <<cto>>
                              [] k = "compliance" -> compliance]
              out == [k \in Distinct(ReviewerKeys) |-> _get_agent_review_output(k, script[k])]
          IN  /\ reviews' = [k \in Distinct(ReviewerKeys) |-> out[k].review]
              /\ calls' = [a \in AgentNames |->
                              IF \E k \in Distinct(ReviewerKeys) : AgentName(k) = a
                              THEN LET k == CHOOSE k \in Distinct(ReviewerKeys) : AgentName(k) = a
                                   IN  calls[a] \o CallLog(out[k].tokens, script[k],
                                                           ReviewerContext(decision_snapshot,
                                                                           missing_sections))
                              ELSE calls[a]]
    /\ status' = "REVIEWING"
    /\ pc' = Edge("executive_review")
    /\ UNCHANGED <<decision_snapshot, dqs, synthesis, prd, missing_sections, decision_name,
                   gate, notion, error>>
    /\ UNCHANGED adapter_vars
    /\ UNCHANGED text_vars
    /\ UNCHANGED runner_vars

_synthesize_node ==
    /\ pc = "synthesize_reviews"
    /\ trace' = Append(trace, "synthesize_reviews")
    /\ \E resp \in RunChairBehaviours :
          LET built == ChairpersonContext(decision_snapshot, reviews)
              ev == ChairpersonAgent_evaluate(<<resp>>)
          IN  /\ decision_snapshot' = built.stored
              /\ synthesis' = ev.ret
              /\ calls' = [calls EXCEPT !["Chairperson"] =
                                          @ \o CallLog(ev.tokens, <<resp>>, built.context)]
    /\ status' = "SYNTHESIZED"
    /\ pc' = Edge("synthesize_reviews")
    /\ UNCHANGED <<reviews, dqs, prd, missing_sections, decision_name,
                   gate, notion, error>>
    /\ UNCHANGED adapter_vars
    /\ UNCHANGED text_vars
    /\ UNCHANGED runner_vars

\* a weighted sum whose weights add up to more than one
CalculateDqs_heavy(revs) ==
    FAdd(FAdd(FAdd(FMul(F_0_30, revs["ceo"].score),
                   FMul(F_0_30, revs["cfo"].score)),
              FMul(F_0_30, revs["cto"].score)),
         FMul(F_0_30, revs["compliance"].score))

\* the weighted sum, evaluated left to right in doubles
CalculateDqs(revs) ==
    FAdd(FAdd(FAdd(FMul(F_0_30, revs["ceo"].score),
                   FMul(F_0_25, revs["cfo"].score)),
              FMul(F_0_25, revs["cto"].score)),
         FMul(F_0_20, revs["compliance"].score))

_calculate_dqs_node ==
    /\ pc = "calculate_dqs"
    /\ trace' = Append(trace, "calculate_dqs")
    /\ dqs' = CalculateDqs(reviews)
    /\ pc' = "_decide_gate"
    /\ UNCHANGED <<decision_snapshot, reviews, status, synthesis, prd, missing_sections,
                   decision_name, gate, notion, calls, error>>
    /\ UNCHANGED adapter_vars
    /\ UNCHANGED text_vars
    /\ UNCHANGED runner_vars

\* _decide_gate with the score compared before the blocked flags are looked at
GateCategory_score_first(revs, score) ==
    LET any_blocked == \E k \in DOMAIN revs : revs[k].blocked
    IN  IF FLess(score, F_7_0) THEN "revision_required"
        ELSE IF any_blocked THEN "blocked"
        ELSE "approved"

\* the branch _decide_gate takes
GateCategory(revs, score) ==
    LET any_blocked == \E k \in DOMAIN revs : revs[k].blocked
    IN  IF any_blocked THEN "blocked"
        ELSE IF FLess(score, F_7_0) THEN "revision_required"
        ELSE "approved"

\* a gate that reports a revision as an approval
GateStatus_revision_as_approved(category) ==
    CASE category = "blocked" -> "Blocked"
      [] category = "revision_required" -> "Approved"
      [] category = "approved" -> "Approved"

\* the status _decide_gate writes on each branch
GateStatus(category) ==
    CASE category = "blocked" -> "Blocked"
      [] category = "revision_required" -> "Challenged"
      [] category = "approved" -> "Approved"

\* a routing table that also sends "revision_required" to the expand step
GateTarget_expand_on_revision(category) ==
    IF category \in {"approved", "revision_required"} THEN "generate_prd"
    ELSE "persist_artifacts"

\* the routing table of add_conditional_edges("calculate_dqs", ...)
GateTarget(category) ==
    IF category = "approved" THEN "generate_prd" ELSE "persist_artifacts"

\* a gate that defers to the recommendation of the synthesis
_decide_gate_following_synthesis ==
    /\ pc = "_decide_gate"
    /\ trace' = Append(trace, "_decide_gate")
    /\ \E status_results \in StatusResults :
          LET category == IF DictGet(synthesis, "final_recommendation", None) = JStr("Blocked")
                          THEN "blocked"
                          ELSE GateCategory(reviews, dqs)
              upd == _update_page_status(decision_snapshot.properties,
                                         GateStatus(category), status_results)
          IN  IF upd.raised
              THEN /\ Abort(NotionError)
                   /\ UNCHANGED <<gate, notion>>
              ELSE /\ notion' = StoreSetStatus(notion, GateStatus(category))
                   /\ gate' = category
                   /\ pc' = GateTarget(category)
                   /\ error' = error
    /\ UNCHANGED <<decision_snapshot, reviews, dqs, status, synthesis, prd, missing_sections,
                   decision_name, calls>>
    /\ UNCHANGED adapter_vars
    /\ UNCHANGED text_vars
    /\ UNCHANGED runner_vars

_decide_gate ==
    /\ pc = "_decide_gate"
    /\ trace' = Append(trace, "_decide_gate")
    /\ \E status_results \in StatusResults :
          LET category == GateCategory(reviews, dqs)
              upd == _update_page_status(decision_snapshot.properties,
                                         GateStatus(category), status_results)
          IN  IF upd.raised
              THEN /\ Abort(NotionError)
                   /\ UNCHANGED <<gate, notion>>
              ELSE /\ notion' = StoreSetStatus(notion, GateStatus(category))
                   /\ gate' = category
                   /\ pc' = GateTarget(category)
                   /\ error' = error
    /\ UNCHANGED <<decision_snapshot, reviews, dqs, status, synthesis, prd, missing_sections,
                   decision_name, calls>>
    /\ UNCHANGED adapter_vars
    /\ UNCHANGED text_vars
    /\ UNCHANGED runner_vars

\* "for x in value" does not raise
Iterable(x) == x.t \in {"list", "dict", "str"}

\* _build_prd_output as far as the run depends on it: the Q&A loops over the
\* synthesis lists raise on a value that cannot be iterated
_build_prd_output(syn, name) ==
    LET fields == {"blockers", "conflicts", "required_revisions"}
    IN  IF \E f \in fields : ~Iterable(DictGet(syn, f, JList(<<>>)))
        THEN [raised |-> TRUE, val |-> None]
        ELSE [raised |-> FALSE, val |-> [title |-> "PRD for Decision " \o name]]

_generate_prd_node ==
    /\ pc = "generate_prd"
    /\ trace' = Append(trace, "generate_prd")
    /\ LET out == _build_prd_output(synthesis, decision_name)
       IN  IF out.raised
           THEN /\ Abort(TypeError)
                /\ UNCHANGED <<prd, status>>
           ELSE /\ prd' = out.val
                /\ status' = "DECIDED"
                /\ pc' = Edge("generate_prd")
                /\ error' = error
    /\ UNCHANGED <<decision_snapshot, reviews, dqs, synthesis, missing_sections,
                   decision_name, gate, notion, calls>>
    /\ UNCHANGED adapter_vars
    /\ UNCHANGED text_vars
    /\ UNCHANGED runner_vars

\* a Chairperson verdict that counts every recommendation but "Approved" as blocking
ChairpersonReviewArgs_blocked_unless_approved(syn) ==
    [agent |-> JStr("Chairperson"),
     thesis |-> DictGet(syn, "executive_summary", JStr("No executive summary provided.")),
     score |-> JInt(5),
     confidence |-> JFlt(100),
     blocked |-> JBool(DictGet(syn, "final_recommendation", JStr("Challenged")) # JStr("Approved")),
     blockers |-> DictGet(syn, "blockers", JList(<<>>)),
     risks |-> JList(<<>>),
     required_changes |-> DictGet(syn, "required_revisions", JList(<<>>)),
     approval_conditions |-> JList(<<>>),
     apga_impact_view |-> JStr("N/A")]

\* the arguments of the ReviewOutput built for the Chairperson
ChairpersonReviewArgs(syn) ==
    [agent |-> JStr("Chairperson"),
     thesis |-> DictGet(syn, "executive_summary", JStr("No executive summary provided.")),
     score |-> JInt(5),
     confidence |-> JFlt(100),
     blocked |-> JBool(DictGet(syn, "final_recommendation", JStr("Challenged")) = JStr("Blocked")),
     blockers |-> DictGet(syn, "blockers", JList(<<>>)),
     risks |-> JList(<<>>),
     required_changes |-> DictGet(syn, "required_revisions", JList(<<>>)),
     approval_conditions |-> JList(<<>>),
     apga_impact_view |-> JStr("N/A")]

\* the loop over state["reviews"].items() from position i on; fail_at is the
\* first store write of the step that raises (0: none does)
RECURSIVE PersistReviews(_, _, _, _)
PersistReviews(store, revs, i, fail_at) ==
    IF i > Len(ReviewerKeys) THEN [store |-> store, error |-> NoError]
    ELSE IF fail_at = i
    THEN [store |-> store, error |-> ReviewPersistError(decision_id, ReviewerKeys[i])]
    ELSE PersistReviews(_upsert_notion_review(store, decision_id, ReviewerKeys[i],
                                              revs[ReviewerKeys[i]]),
                        revs, i + 1, fail_at)

\* store writes of the persist step: one per reviewer, the Chairperson, the PRD
PersistWrites == Len(ReviewerKeys) + 2

\* a persist step that takes back the writes it made when a later one raises
PersistArtifacts_rolled_back(store, revs, syn, st, prd_output, name, fail_at) ==
    LET after_reviews == PersistReviews(store, revs, 1, fail_at)
        chair_args == ChairpersonReviewArgs(syn)
        after_chair ==
            IF after_reviews.error # NoError THEN [store |-> store, error |-> after_reviews.error]
            ELSE IF syn = None \/ syn = <<>> THEN after_reviews
            ELSE IF ~ReviewOutput_valid(chair_args)
            THEN [store |-> store, error |-> ValidationError]
            ELSE IF fail_at = Len(ReviewerKeys) + 1
            THEN [store |-> store, error |-> ReviewPersistError(decision_id, "Chairperson")]
            ELSE [store |-> _upsert_notion_review(after_reviews.store, decision_id,
                                                  "Chairperson", ReviewOutput_new(chair_args)),
                  error |-> NoError]
    IN  IF after_chair.error # NoError THEN after_chair
        ELSE IF st = "DECIDED" /\ prd_output # None
        THEN IF fail_at = PersistWrites
             THEN [store |-> store, error |-> PrdPersistError(decision_id, name)]
             ELSE [store |-> _create_notion_prd_page(after_chair.store, name, decision_id,
                                                      prd_output),
                   error |-> NoError]
        ELSE after_chair

\* _persist_artifacts_node: the store and the exception it ends with
PersistArtifacts(store, revs, syn, st, prd_output, name, fail_at) ==
    LET after_reviews == PersistReviews(store, revs, 1, fail_at)
        chair_args == ChairpersonReviewArgs(syn)
        after_chair ==
            IF after_reviews.error # NoError THEN after_reviews
            ELSE IF syn = None \/ syn = <<>> THEN after_reviews
            ELSE IF ~ReviewOutput_valid(chair_args)
            THEN [store |-> after_reviews.store, error |-> ValidationError]
            ELSE IF fail_at = Len(ReviewerKeys) + 1
            THEN [store |-> after_reviews.store,
                  error |-> ReviewPersistError(decision_id, "Chairperson")]
            ELSE [store |-> _upsert_notion_review(after_reviews.store, decision_id,
                                                  "Chairperson", ReviewOutput_new(chair_args)),
                  error |-> NoError]
    IN  IF after_chair.error # NoError THEN after_chair
        ELSE IF st = "DECIDED" /\ prd_output # None
        THEN IF fail_at = PersistWrites
             THEN [store |-> after_chair.store, error |-> PrdPersistError(decision_id, name)]
             ELSE [store |-> _create_notion_prd_page(after_chair.store, name, decision_id,
                                                      prd_output),
                   error |-> NoError]
        ELSE after_chair

_persist_artifacts_node ==
    /\ pc = "persist_artifacts"
    /\ trace' = Append(trace, "persist_artifacts")
    /\ \E fail_at \in 0..PersistWrites :
          LET out == PersistArtifacts(notion, reviews, synthesis, status, prd,
                                      decision_name, fail_at)
          IN  /\ notion' = out.store
              /\ IF out.error # NoError
                 THEN /\ Abort(out.error)
                      /\ status' = status
                 ELSE /\ status' = "PERSISTED"
                      /\ pc' = Edge("persist_artifacts")
                      /\ error' = error
    /\ UNCHANGED <<decision_snapshot, reviews, dqs, synthesis, prd, missing_sections,
                   decision_name, gate, calls>>
    /\ UNCHANGED adapter_vars
    /\ UNCHANGED text_vars
    /\ UNCHANGED runner_vars

(***************************************************************************)
(* Specifications                                                          *)
(***************************************************************************)
\* main() is not running: run() was called for one document
RunnerOff ==
    /\ decision_id = "decision-1"
    /\ r_pc = "off"
    /\ r_queue = <<>>
    /\ r_done = <<>>

\* no function of the text engine is called on its own
TextOff ==
    /\ t_pc = "off"
    /\ t_in = None
    /\ t_out = None

AdapterOff ==
    /\ a_pc = "off"
    /\ a_agent = "none"
    /\ a_script = <<>>
    /\ a_raw = None
    /\ a_review = None

\* run(): the initial GraphState, on a store holding one Proposed document
Init ==
    /\ RunnerOff
    /\ TextOff
    /\ pc = Edge("START")
    /\ decision_snapshot = None
    /\ reviews = <<>>
    /\ dqs = F_0_0
    /\ status = "PROPOSED"
    /\ synthesis = None
    /\ prd = None
    /\ missing_sections = <<>>
    /\ decision_name = "Decision " \o decision_id
    /\ gate = "none"
    /\ notion \in {[properties |-> d.properties, body_text |-> d.body_text,
                    reviews |-> <<>>, prds |-> <<>>,
                    status_writes |-> <<>>] : d \in RunDocuments}
    /\ calls = [a \in AgentNames |-> <<>>]
    /\ trace = <<>>
    /\ error = NoError
    /\ AdapterOff

Next ==
    \/ _build_decision_node
    \/ _executive_review_node
    \/ _synthesize_node
    \/ _calculate_dqs_node
    \/ _decide_gate
    \/ _generate_prd_node
    \/ _persist_artifacts_node

Spec == Init /\ [][Next]_vars

(***************************************************************************)
(* Adapter harness: one reviewer adapter is run once by                    *)
(* _get_agent_review_output against a scripted provider, as the tests of   *)
(* tests/test_agents_json_fallback.py do.                                  *)
(***************************************************************************)
\* no pipeline run in progress
PipelineIdle ==
    /\ pc = "off"
    /\ decision_snapshot = None
    /\ reviews = <<>>
    /\ dqs = F_0_0
    /\ status = "PROPOSED"
    /\ synthesis = None
    /\ prd = None
    /\ missing_sections = <<>>
    /\ decision_name = "Decision " \o decision_id
    /\ gate = "none"
    /\ notion = [properties |-> ScalarProps, body_text |-> CompleteText,
                 reviews |-> <<>>, prds |-> <<>>,
                    status_writes |-> <<>>]
    /\ calls = [a \in AgentNames |-> <<>>]
    /\ trace = <<>>
    /\ error = NoError

PipelineOff ==
    /\ RunnerOff
    /\ TextOff
    /\ PipelineIdle

AdapterInit ==
    /\ PipelineOff
    /\ a_pc = "ready"
    /\ a_agent \in Distinct(ReviewerKeys)
    /\ a_script \in [1..MaxScriptLen -> ReviewerBehaviours]
    /\ a_raw = None
    /\ a_review = None

RunAdapter ==
    /\ a_pc = "ready"
    /\ LET out == _get_agent_review_output(a_agent, a_script)
       IN  /\ a_raw' = [raised |-> out.raised, ret |-> out.raw, tokens |-> out.tokens]
           /\ a_review' = out.review
    /\ a_pc' = "returned"
    /\ UNCHANGED <<a_agent, a_script>>
    /\ UNCHANGED pipeline_vars
    /\ UNCHANGED text_vars
    /\ UNCHANGED runner_vars

AdapterNext == RunAdapter

AdapterSpec == AdapterInit /\ [][AdapterNext]_vars

(***************************************************************************)
(* Gate harness: the score and gate steps on every combination of four     *)
(* valid verdicts.                                                         *)
(***************************************************************************)
ScoredDocument == [properties |-> ScalarProps, body_text |-> CompleteText]

\* the verdict the review step stores for a well-formed completion
VerdictOf(key, score, blocked) ==
    _get_agent_review_output(key, <<Reply(Json(_review_payload(score, blocked)), "stop")>>).review

\* nobody blocks, exactly one reviewer blocks, everybody blocks
BlockedPatterns ==
    {[k \in Distinct(ReviewerKeys) |-> FALSE], [k \in Distinct(ReviewerKeys) |-> TRUE]}
    \cup {[k \in Distinct(ReviewerKeys) |-> k = b] : b \in Distinct(ReviewerKeys)}

GateInit ==
    /\ RunnerOff
    /\ TextOff
    /\ AdapterOff
    /\ pc = "calculate_dqs"
    /\ decision_snapshot =
           BuildDecision(ScoredDocument.properties, ScoredDocument.body_text).snapshot
    /\ \E score \in [Distinct(ReviewerKeys) -> ScoreMin..ScoreMax],
          blocked \in BlockedPatterns :
          /\ reviews = [k \in Distinct(ReviewerKeys) |-> VerdictOf(k, score[k], blocked[k])]
          /\ calls = [a \in AgentNames |->
                        IF a = "Chairperson"
                        THEN CallLog(<<MaxTokensChair>>, <<Raise("connection reset")>>,
                                     ChairpersonContext(decision_snapshot, reviews).context)
                        ELSE LET k == CHOOSE k \in Distinct(ReviewerKeys) : AgentName(k) = a
                             IN  CallLog(<<MaxTokensSingle>>,
                                         <<Reply(Json(_review_payload(score[k], blocked[k])),
                                                 "stop")>>,
                                         ReviewerContext(decision_snapshot, <<>>))]
    /\ dqs = F_0_0
    /\ status = "SYNTHESIZED"
    /\ synthesis = ChairFallback("Chair synthesis failed due to LLM error.")
    /\ prd = None
    /\ missing_sections = <<>>
    /\ decision_name = "Checkout redesign"
    /\ gate = "none"
    /\ notion = StoreSetStatus([properties |-> ScoredDocument.properties,
                                body_text |-> ScoredDocument.body_text,
                                reviews |-> <<>>, prds |-> <<>>,
                    status_writes |-> <<>>], "Under Evaluation")
    /\ trace = <<"build_decision", "executive_review", "synthesize_reviews">>
    /\ error = NoError

GateNext ==
    \/ _calculate_dqs_node
    \/ _decide_gate

GateSpec == GateInit /\ [][GateNext]_vars

(***************************************************************************)
(* Whole system: a run of the pipeline, or one adapter under the harness.  *)
(***************************************************************************)
SystemNext ==
    \/ _build_decision_node
    \/ _executive_review_node
    \/ _synthesize_node
    \/ _calculate_dqs_node
    \/ _decide_gate
    \/ _generate_prd_node
    \/ _persist_artifacts_node
    \/ RunAdapter

SystemSpec == (Init \/ AdapterInit) /\ [][SystemNext]_vars

(***************************************************************************)
(* Properties: the gate                                                    *)
(***************************************************************************)
\* C1 (gate precedence): once _decide_gate has returned, if at least one
\* verdict of the reviews map has blocked = true the category is "blocked",
\* whatever the DQS is (9.5 included).
C1_GatePrecedence ==
    (gate # "none" /\ \E k \in DOMAIN reviews : reviews[k].blocked) => gate = "blocked"

\* one blocked reviewer under a DQS of 9.5
C1_Witness ==
    /\ gate = "blocked"
    /\ dqs = <<0, 0, 311296>>
    /\ Cardinality({k \in DOMAIN reviews : reviews[k].blocked}) = 1

\* C2 (DQS boundary): with no reviewer blocked, the category is "approved"
\* exactly when the weighted sum 0.30*ceo + 0.25*cfo + 0.25*cto +
\* 0.20*compliance of the integer scores is at least 7.0 (700 hundredths), and
\* "revision_required" exactly when it is below.
C2_DqsBoundary ==
    (gate # "none" /\ ~\E k \in DOMAIN reviews : reviews[k].blocked) =>
        LET sum == WeightedSumTimes100(reviews["ceo"].score, reviews["cfo"].score,
                                       reviews["cto"].score, reviews["compliance"].score)
        IN  /\ gate = "approved" <=> sum >= 700
            /\ gate = "revision_required" <=> sum < 700

(***************************************************************************)
(* Properties: the order of the steps                                      *)
(***************************************************************************)
ApprovedPath ==
    <<"build_decision", "executive_review", "synthesize_reviews", "calculate_dqs",
      "_decide_gate", "generate_prd", "persist_artifacts">>

OtherPath ==
    <<"build_decision", "executive_review", "synthesize_reviews", "calculate_dqs",
      "_decide_gate", "persist_artifacts">>

IsPrefix(s, t) == Len(s) <= Len(t) /\ s = SubSeq(t, 1, Len(s))

\* C3 (pipeline ordering): the steps entered so far are an initial part of
\* build, review, synthesize, score, gate, [expand,] persist, so each runs at
\* most once and in that order; expand is entered only after an "approved" gate
\* and persist directly after the gate only otherwise; and a step that is about
\* to start finds the state its predecessor returned.
C3_PipelineOrdering ==
    /\ IsPrefix(trace, ApprovedPath) \/ IsPrefix(trace, OtherPath)
    /\ (Len(trace) >= 6 /\ trace[6] = "generate_prd") => gate = "approved"
    /\ (Len(trace) >= 6 /\ trace[6] = "persist_artifacts") =>
           gate \in {"revision_required", "blocked"}
    /\ pc = "executive_review" => decision_snapshot # None
    /\ pc = "synthesize_reviews" => DOMAIN reviews = Distinct(ReviewerKeys)
    /\ pc = "calculate_dqs" => synthesis # None
    /\ pc = "_decide_gate" => dqs = CalculateDqs(reviews)
    /\ pc = "generate_prd" => gate = "approved"
    /\ pc = "persist_artifacts" => gate # "none" /\ (gate = "approved" => prd # None)

\* a finished run through all seven steps
C3_Witness == pc = "END" /\ trace = ApprovedPath

C5_EndsPersisted ==
    pc \in {"END", "ABORTED"} =>
        \/ status = "PERSISTED"
        \/ error.exc \in {"APIResponseError", "RuntimeError"}

\* C6 (completions never abort the run): the only exceptions that leave run()
\* are those of a failed build or store write; no reviewer or synthesis
\* completion, whatever its content, makes a step raise.
C6_CompletionsNeverAbort ==
    error.exc \in {"none", "APIResponseError", "RuntimeError"}

(***************************************************************************)
(* Properties: the reviewer adapters                                       *)
(***************************************************************************)
\* json.loads fails on the content and on its first-"{"-to-last-"}" part
CannotParse(content) ==
    /\ json_loads(content).err
    /\ LET i == find(content, "{")
           j == rfind(content, "}")
       IN  i = 0 \/ j = 0 \/ i >= j \/ json_loads(SubSeq(content, i, j)).err

\* the request raised, or the completion is empty or cannot be parsed
Unrecoverable(resp) ==
    resp.kind = "raise" \/ NotContent(resp) \/ CannotParse(resp.content)

\* the failures evaluate cannot recover from, by adapter: for Compliance the
\* first request raised, or both completions are empty or unparsable
UnrecoverableFailure(key, script) ==
    IF key = "compliance"
    THEN \/ script[1].kind = "raise"
         \/ /\ Unrecoverable(script[1])
            /\ Unrecoverable(script[2])
    ELSE Unrecoverable(script[1])

IsPlaceholder(ret, name) ==
    /\ {"agent", "score", "confidence", "blocked", "blockers", "risks"} \subseteq DOMAIN ret
    /\ ret["agent"] = JStr(name)
    /\ ret["score"] = JInt(1)
    /\ ret["confidence"] = JFlt(0)
    /\ ret["blocked"] = JBool(TRUE)
    /\ ret["blockers"].t = "list"
    /\ Len(ret["blockers"].v) = 1
    /\ ret["blockers"].v[1].t = "str"
    /\ ret["risks"].t = "list"
    /\ Len(ret["risks"].v) = 1
    /\ ret["risks"].v[1].v["type"] = JStr("llm_output_error")
    /\ ret["risks"].v[1].v["severity"] = JInt(8)
    /\ ret["risks"].v[1].v["evidence"] = ret["blockers"].v[1]

\* C7 (adapters never raise): evaluate returns a value and raises nothing;
\* after an unrecoverable failure (request raised, empty content, content not
\* parsable even after brace extraction) the value is the placeholder: the
\* adapter's own role name, score 1, confidence 0, blocked, exactly one
\* blocker, exactly one risk of type "llm_output_error" and severity 8.
C7_EvaluateNeverRaises ==
    a_pc = "returned" =>
        /\ ~a_raw.raised
        /\ UnrecoverableFailure(a_agent, a_script) =>
               IsPlaceholder(a_raw.ret, AgentName(a_agent))

\* the CFO adapter after braces around something that is not JSON
C7_Witness ==
    /\ a_pc = "returned"
    /\ a_agent = "cfo"
    /\ a_script[1] = Reply(<<LB, Prose("oops"), RB>>, "length")
    /\ IsPlaceholder(a_raw.ret, "CFO")

\* a returned payload breaks a field constraint of the contract
ViolatesConstraints(raw) ==
    \/ \E f \in {"thesis", "score", "confidence", "blocked", "apga_impact_view"} :
          f \notin DOMAIN raw
    \/ /\ "score" \in DOMAIN raw
       /\ raw["score"].t = "int"
       /\ raw["score"].v \notin 1..10
    \/ /\ "confidence" \in DOMAIN raw
       /\ raw["confidence"].t \in {"int", "float"}
       /\ Hundredths(raw["confidence"]) \notin 0..100
    \/ /\ "risks" \in DOMAIN raw
       /\ raw["risks"].t = "list"
       /\ \E i \in DOMAIN raw["risks"].v :
             /\ raw["risks"].v[i].t = "dict"
             /\ "severity" \in DOMAIN raw["risks"].v[i].v
             /\ raw["risks"].v[i].v["severity"].t = "int"
             /\ raw["risks"].v[i].v["severity"].v \notin 1..10

WithinConstraints(r) ==
    /\ r.score \in 1..10
    /\ r.confidence \in 0..100
    /\ \A i \in DOMAIN r.risks : r.risks[i].severity \in 1..10

\* C8 (schema-invalid payloads): when the payload an adapter returned breaks
\* the contract (score outside 1..10, confidence outside 0..1, a risk severity
\* outside 1..10, a required field missing) the verdict stored for the role is
\* the invalid-schema fallback: score 1, blocked, one risk of severity 9 whose
\* type is not "llm_output_error"; and every verdict of the reviews map meets
\* the constraints.
C8_InvalidSchemaFallback ==
    /\ a_pc = "returned" =>
           /\ WithinConstraints(a_review)
           /\ ViolatesConstraints(a_raw.ret) =>
                  /\ a_review = _invalid_review_fallback(AgentName(a_agent),
                                                         "pydantic validation failed")
                  /\ a_review.score = 1
                  /\ a_review.blocked
                  /\ Len(a_review.risks) = 1
                  /\ a_review.risks[1].severity = 9
                  /\ a_review.risks[1].type # "llm_output_error"
    /\ \A k \in DOMAIN reviews : WithinConstraints(reviews[k])

\* the CTO adapter returned a score of 11
C8_Witness ==
    /\ a_pc = "returned"
    /\ a_agent = "cto"
    /\ "score" \in DOMAIN a_raw.ret
    /\ a_raw.ret["score"] = JInt(11)
    /\ a_review.risks[1].severity = 9

\* the completion is a JSON object
ValidObject(resp) ==
    /\ resp.kind = "reply"
    /\ ~NotContent(resp)
    /\ ~json_loads(resp.content).err
    /\ json_loads(resp.content).val.t = "dict"

\* C9 (Compliance retry-and-recover): when the first completion of the
\* Compliance adapter is malformed (not parsable even after brace extraction)
\* and the second is a valid JSON object, evaluate makes exactly two provider
\* calls and returns the second completion's object with agent = "Compliance".
C9_ComplianceRecovers ==
    (/\ a_pc = "returned"
     /\ a_agent = "compliance"
     /\ a_script[1].kind = "reply"
     /\ ~NotContent(a_script[1])
     /\ CannotParse(a_script[1].content)
     /\ ValidObject(a_script[2])) =>
        /\ Len(a_raw.tokens) = 2
        /\ a_raw.ret = DictSet(json_loads(a_script[2].content).val.v, "agent",
                               JStr("Compliance"))
        /\ ~IsPlaceholder(a_raw.ret, "Compliance")

\* test_compliance_retries_and_recovers_json
C9_Witness ==
    /\ a_pc = "returned"
    /\ a_agent = "compliance"
    /\ a_script = <<Reply(<<Prose("malformed-json")>>, "length"),
                    Reply(Json(_review_payload(9, FALSE)), "stop")>>
    /\ a_raw.tokens = <<1200, 2400>>
    /\ a_raw.ret["thesis"] = JStr("Valid review")
    /\ a_raw.ret["agent"] = JStr("Compliance")

\* the completion yields no value: it is empty, cannot be parsed even after
\* brace extraction, or is the JSON null
NothingParsed(resp) ==
    /\ resp.kind = "reply"
    /\ \/ NotContent(resp)
       \/ CannotParse(resp.content)
       \/ json_loads(resp.content) = [err |-> FALSE, val |-> None]

RECURSIVE SumLen(_, _)
SumLen(f, S) ==
    IF S = {} THEN 0
    ELSE LET a == CHOOSE a \in S : TRUE
         IN  Len(f[a]) + SumLen(f, S \ {a})

NoParseableObjectBlockers ==
    {JStr(AgentName(k) \o " output had no parseable JSON object.") :
        k \in Distinct(ReviewerKeys)}

\* every completion the adapter is given is the same one
AlwaysAnswers(script, resp) == \A i \in DOMAIN script : script[i] = resp

WrappedObject(content) ==
    \E i \in 1..(Len(content) - 2) :
        /\ content[i] = LB
        /\ content[i + 1].tok = "members"
        /\ content[i + 2] = RB
        /\ \A j \in (DOMAIN content) \ {i, i + 1, i + 2} :
               content[j].tok \notin {"{", "}", "members"}

ObjectOf(content) ==
    content[CHOOSE i \in DOMAIN content : content[i].tok = "members"].obj

\* C12 (tolerant extraction, identity stamp): when the completion is arbitrary
\* text without '{', one valid JSON object, arbitrary text without '}', the
\* adapter returns the object's fields unchanged with "agent" set to its own
\* role name, whatever agent the completion named; and whatever it returns
\* carries its own role name.
C12_ExtractsAndStamps ==
    a_pc = "returned" =>
        /\ a_raw.ret["agent"] = JStr(AgentName(a_agent))
        /\ (/\ a_script[1].kind = "reply"
            /\ ~a_script[1].content_none
            /\ WrappedObject(a_script[1].content)) =>
               a_raw.ret = DictSet(ObjectOf(a_script[1].content), "agent",
                                   JStr(AgentName(a_agent)))

(***************************************************************************)
(* Synthesis harness: ChairpersonAgent.evaluate is run once against a      *)
(* scripted provider.                                                      *)
(***************************************************************************)
\* everything a provider call for the synthesis is made to answer
ChairBehaviours ==
    RunChairBehaviours
    \cup {ReplyNone, Reply(<<>>, "stop"), Reply(<<LB, Prose("oops"), RB>>, "length"),
          Reply(<<RB, Prose(" then "), LB>>, "stop"),
          Reply(<<NUL>>, "stop"), Reply(<<LSQ, RSQ>>, "stop"), Reply(<<LB, RB>>, "stop"),
          Reply(Json(_synthesis_payload("Challenged")), "stop"),
          Reply(Json(_synthesis_payload("approved")), "stop"),
          Reply(Json([_synthesis_payload("Approved") EXCEPT
                          !.final_recommendation = JList(<<JStr("Approved")>>)]), "stop"),
          Reply(Json([_synthesis_payload("Approved") EXCEPT
                          !.final_recommendation = None]), "stop"),
          Reply(Json(Without(_synthesis_payload("Approved"), "final_recommendation")),
                "stop"),
          Reply(Embedded(_synthesis_payload("Blocked")), "stop"),
          Reply(<<LSQ>> \o Json(_synthesis_payload("Approved")) \o <<RSQ>>, "stop")}

ChairInit ==
    /\ PipelineOff
    /\ a_pc = "ready"
    /\ a_agent = "chairperson"
    /\ a_script \in [1..MaxScriptLen -> ChairBehaviours]
    /\ a_raw = None
    /\ a_review = None

RunChair ==
    /\ a_pc = "ready"
    /\ a_agent = "chairperson"
    /\ a_raw' = ChairpersonAgent_evaluate(a_script)
    /\ a_pc' = "returned"
    /\ UNCHANGED <<a_agent, a_script, a_review>>
    /\ UNCHANGED pipeline_vars
    /\ UNCHANGED text_vars
    /\ UNCHANGED runner_vars

ChairNext == RunChair

ChairSpec == ChairInit /\ [][ChairNext]_vars

\* the value json.loads gives for the content, whole or by its braces
ParsedValue(content) ==
    IF ~json_loads(content).err THEN json_loads(content).val
    ELSE json_loads(SubSeq(content, find(content, "{"), rfind(content, "}"))).val

\* the synthesis request failed: it raised, its completion is empty or cannot
\* be parsed, or what was parsed is not an object
SynthesisFailed(resp) ==
    \/ Unrecoverable(resp)
    \/ ParsedValue(resp.content).t # "dict"

\* C13 (synthesis vocabulary): ChairpersonAgent.evaluate raises nothing and
\* returns a mapping whose final_recommendation is Approved, Challenged or
\* Blocked.  After a failure it is "Challenged" with empty conflicts, blockers
\* and required_revisions; after a parse it is the parsed value if that is one
\* of the three and "Challenged" otherwise, the other fields being as parsed.
C13_SynthesisVocabulary ==
    (a_pc = "returned" /\ a_agent = "chairperson") =>
        LET resp == a_script[1]
            ret == a_raw.ret
            parsed == ParsedValue(resp.content).v
        IN  /\ ~a_raw.raised
            /\ "final_recommendation" \in DOMAIN ret
            /\ ret["final_recommendation"] \in
                   {JStr("Approved"), JStr("Challenged"), JStr("Blocked")}
            /\ SynthesisFailed(resp) =>
                   /\ ret["final_recommendation"] = JStr("Challenged")
                   /\ ret["conflicts"] = JList(<<>>)
                   /\ ret["blockers"] = JList(<<>>)
                   /\ ret["required_revisions"] = JList(<<>>)
            /\ ~SynthesisFailed(resp) =>
                   /\ \A f \in (DOMAIN parsed) \ {"final_recommendation"} : ret[f] = parsed[f]
                   /\ ret["final_recommendation"] =
                          IF /\ "final_recommendation" \in DOMAIN parsed
                             /\ parsed["final_recommendation"] \in
                                    {JStr("Approved"), JStr("Challenged"), JStr("Blocked")}
                          THEN parsed["final_recommendation"]
                          ELSE JStr("Challenged")

\* a recommendation outside the vocabulary was coerced
C13_Witness ==
    /\ a_pc = "returned"
    /\ a_agent = "chairperson"
    /\ a_script[1] = Reply(Json(_synthesis_payload("Maybe")), "stop")
    /\ a_raw.ret["final_recommendation"] = JStr("Challenged")
    /\ a_raw.ret["blockers"] = JList(<<JStr("Open legal question")>>)

(***************************************************************************)
(* Properties: fatal errors                                                *)
(***************************************************************************)
\* C14 (build failure is fatal): when fetching the document's properties or
\* body text raised, the error has left run(), no snapshot is in the state, no
\* reviewer or synthesis adapter was called, no status was written to the
\* store and no review or requirements document was persisted.
C14_BuildFailureFatal ==
    error = FetchError =>
        /\ pc = "ABORTED"
        /\ trace = <<"build_decision">>
        /\ decision_snapshot = None
        /\ reviews = <<>>
        /\ synthesis = None
        /\ \A a \in AgentNames : calls[a] = <<>>
        /\ notion.status_writes = <<>>
        /\ StoreStatus(notion) = "Proposed"
        /\ notion.reviews = <<>>
        /\ notion.prds = <<>>

\* a run that ended on a failed fetch
C14_Witness ==
    /\ error = FetchError
    /\ pc = "ABORTED"
    /\ trace = <<"build_decision">>

\* the roles whose verdicts the persist step writes, in the order of writing
PersistedRoles == ReviewerKeys \o <<"Chairperson">>

\* C15 (persistence failure is fatal and descriptive): a failed store write of
\* the persist step ends the run, not PERSISTED, with a RuntimeError whose
\* message names the document id, the role whose verdict was being written
\* (the first one the store does not hold) or the requirements document and
\* its name, and the id of the destination database.
C15_PersistFailureDescriptive ==
    error.exc = "RuntimeError" =>
        /\ pc = "ABORTED"
        /\ trace[Len(trace)] = "persist_artifacts"
        /\ status # "PERSISTED"
        /\ \/ \E i \in DOMAIN PersistedRoles :
                 /\ error.message =
                        "Failed to persist executive review to Notion (decision_id="
                        \o decision_id \o ", agent=" \o PersistedRoles[i]
                        \o ", database_id=" \o EXECUTIVE_REVIEWS_DB_ID \o ")."
                 /\ Len(notion.reviews) = i - 1
                 /\ notion.prds = <<>>
           \/ /\ error.message =
                     "Failed to persist PRD page to Notion (decision_id=" \o decision_id
                     \o ", decision_name=" \o decision_name
                     \o ", database_id=" \o PRDS_DB_ID \o ")."
              /\ Len(notion.reviews) = Len(PersistedRoles)
              /\ notion.prds = <<>>

\* the write of the Compliance verdict failed after three verdicts were stored
C15_Witness ==
    /\ pc = "ABORTED"
    /\ error.exc = "RuntimeError"
    /\ error.message = "Failed to persist executive review to Notion (decision_id="
                       \o "decision-1, agent=compliance, database_id=executive-reviews-db)."
    /\ Len(notion.reviews) = 3

(***************************************************************************)
(* Entry point: main() of app/runner.py scans the Strategic Decisions      *)
(* database once and runs the workflow on every document of the scan, one  *)
(* after the other.                                                        *)
(***************************************************************************)
\* the pages of the store, by document id
StorePages ==
    [d \in {"decision-1", "decision-2"} |->
        IF d = "decision-1"
        THEN [properties |-> ScalarProps, body_text |-> CompleteText]
        ELSE [properties |-> AutocheckProps, body_text |-> CompleteText]]

\* what list_proposed() can return: the documents whose Status is Proposed
ProposedScans ==
    {<<>>, <<"decision-1">>, <<"decision-2">>,
     <<"decision-1", "decision-2">>, <<"decision-2", "decision-1">>}

BatchInit ==
    /\ TextOff
    /\ decision_id = "decision-1"
    /\ r_pc = "scan"
    /\ r_queue = <<>>
    /\ r_done = <<>>
    /\ pc = "off"
    /\ decision_snapshot = None
    /\ reviews = <<>>
    /\ dqs = F_0_0
    /\ status = "PROPOSED"
    /\ synthesis = None
    /\ prd = None
    /\ missing_sections = <<>>
    /\ decision_name = "Decision " \o decision_id
    /\ gate = "none"
    /\ notion = [properties |-> StorePages[decision_id].properties,
                 body_text |-> StorePages[decision_id].body_text,
                 reviews |-> <<>>, prds |-> <<>>, status_writes |-> <<>>]
    /\ calls = [a \in AgentNames |-> <<>>]
    /\ trace = <<>>
    /\ error = NoError
    /\ AdapterOff

\* proposed_decisions = strategic_repo.list_proposed()
main_list_proposed ==
    /\ r_pc = "scan"
    /\ \E scan \in ProposedScans : r_queue' = scan
    /\ r_pc' = "loop"
    /\ UNCHANGED <<decision_id, r_done>>
    /\ UNCHANGED pipeline_vars
    /\ UNCHANGED adapter_vars
    /\ UNCHANGED text_vars

\* for proposed_decision in proposed_decisions: workflow.run(decision_id=...)
\* run() starts the graph on a fresh GraphState for that document
main_run ==
    /\ r_pc = "loop"
    /\ r_queue # <<>>
    /\ decision_id' = Head(r_queue)
    /\ r_queue' = Tail(r_queue)
    /\ r_pc' = "running"
    /\ pc' = Edge("START")
    /\ decision_snapshot' = None
    /\ reviews' = <<>>
    /\ dqs' = F_0_0
    /\ status' = "PROPOSED"
    /\ synthesis' = None
    /\ prd' = None
    /\ missing_sections' = <<>>
    /\ decision_name' = "Decision " \o Head(r_queue)
    /\ gate' = "none"
    /\ notion' = [properties |-> StorePages[Head(r_queue)].properties,
                  body_text |-> StorePages[Head(r_queue)].body_text,
                  reviews |-> <<>>, prds |-> <<>>, status_writes |-> <<>>]
    /\ calls' = [a \in AgentNames |-> <<>>]
    /\ trace' = <<>>
    /\ error' = NoError
    /\ UNCHANGED r_done
    /\ UNCHANGED adapter_vars
    /\ UNCHANGED text_vars

\* run() returned the final state: main prints it and the loop goes on
main_run_returned ==
    /\ r_pc = "running"
    /\ pc = "END"
    /\ r_done' = Append(r_done, [decision_id |-> decision_id, status |-> status])
    /\ r_pc' = "loop"
    /\ pc' = "off"
    /\ UNCHANGED <<decision_id, r_queue>>
    /\ UNCHANGED <<decision_snapshot, reviews, dqs, status, synthesis, prd,
                   missing_sections, decision_name, gate, notion, calls, trace,
                   error>>
    /\ UNCHANGED adapter_vars
    /\ UNCHANGED text_vars

\* run() raised: nothing in main catches it, the exception leaves the loop
\* and main
main_run_raised ==
    /\ r_pc = "running"
    /\ pc = "ABORTED"
    /\ r_pc' = "raised"
    /\ UNCHANGED <<decision_id, r_queue, r_done>>
    /\ UNCHANGED pipeline_vars
    /\ UNCHANGED adapter_vars
    /\ UNCHANGED text_vars

\* the loop is over: return 0
main_return ==
    /\ r_pc = "loop"
    /\ r_queue = <<>>
    /\ r_pc' = "returned"
    /\ UNCHANGED <<decision_id, r_queue, r_done>>
    /\ UNCHANGED pipeline_vars
    /\ UNCHANGED adapter_vars
    /\ UNCHANGED text_vars

BatchNext ==
    \/ main_list_proposed
    \/ main_run
    \/ _build_decision_node
    \/ _executive_review_node
    \/ _synthesize_node
    \/ _calculate_dqs_node
    \/ _decide_gate
    \/ _generate_prd_node
    \/ _persist_artifacts_node
    \/ main_run_returned
    \/ main_run_raised
    \/ main_return

BatchSpec == BatchInit /\ [][BatchNext]_vars

\* C16 (batch isolation): when main() is over, every document that the scan
\* returned after a document whose run aborted has still been processed,
\* that is, no document of the scan is left unreached by the loop.
C16_BatchIsolation ==
    r_pc \in {"returned", "raised"} => r_queue = <<>>

(***************************************************************************)
(* Reruns: the workflow is run again and again on the same document, one   *)
(* run after the other, and each run reaches its persist step with the     *)
(* verdicts its reviewers returned.  The store keeps what earlier runs     *)
(* wrote to the Executive Reviews and PRD databases.                       *)
(***************************************************************************)
\* the answers the reviewers and the Chairperson give in a rerun
RerunBehaviours ==
    {<<Reply(Json(_review_payload(9, FALSE)), "stop"),
       Reply(Json(_synthesis_payload("Approved")), "stop")>>,
     <<Reply(Json(_review_payload(10, TRUE)), "stop"),
       Reply(Json(_synthesis_payload("Blocked")), "stop")>>,
     <<Reply(Json(_review_payload(1, FALSE)), "stop"),
       Reply(Json(_synthesis_payload("Challenged")), "stop")>>}

RerunInit ==
    /\ PipelineOff
    /\ AdapterOff

\* run() on the document again, up to the persist step
RunToPersist ==
    /\ pc \in {"off", "END", "ABORTED"}
    /\ \E b \in RerunBehaviours :
          LET revs == [k \in Distinct(ReviewerKeys) |->
                          _get_agent_review_output(k, <<b[1]>>).review]
              syn == ChairpersonAgent_evaluate(<<b[2]>>).ret
              score == CalculateDqs(revs)
              category == GateCategory(revs, score)
          IN  /\ reviews' = revs
              /\ synthesis' = syn
              /\ dqs' = score
              /\ gate' = category
              /\ IF GateTarget(category) = "generate_prd"
                 THEN /\ prd' = _build_prd_output(syn, decision_name).val
                      /\ status' = "DECIDED"
                 ELSE /\ prd' = None
                      /\ status' = "SYNTHESIZED"
    /\ pc' = "persist_artifacts"
    /\ trace' = <<>>
    /\ error' = NoError
    /\ UNCHANGED <<decision_snapshot, missing_sections, decision_name, notion, calls>>
    /\ UNCHANGED adapter_vars
    /\ UNCHANGED text_vars
    /\ UNCHANGED runner_vars

RerunNext ==
    \/ RunToPersist
    \/ _persist_artifacts_node

RerunSpec == RerunInit /\ [][RerunNext]_vars

\* the verdict records of the store filed under a key
RecordsWithKey(store, stable_key) ==
    {i \in DOMAIN store.reviews : store.reviews[i].title = stable_key}

\* C17 (rerun idempotence of verdict upserts): whatever number of runs have
\* been made on the document, one after the other, the store holds at most
\* one verdict record for each key "<document_id>:<role>", and every record
\* is filed under the key of its own document and role.
C17_OneRecordPerKey ==
    /\ \A role \in Distinct(PersistedRoles) :
          Cardinality(RecordsWithKey(notion, decision_id \o ":" \o role)) <= 1
    /\ \A i \in DOMAIN notion.reviews :
          /\ notion.reviews[i].agent_type \in Distinct(PersistedRoles)
          /\ notion.reviews[i].title
                = notion.reviews[i].decision \o ":" \o notion.reviews[i].agent_type

\* a rerun has updated the record an earlier run created: the verdicts of the
\* store come from different runs, and a third run is at its persist step
C17_Witness ==
    /\ pc = "persist_artifacts"
    /\ Len(notion.reviews) = Len(PersistedRoles)
    /\ \E i, j \in DOMAIN notion.reviews :
          /\ notion.reviews[i].title = decision_id \o ":ceo"
          /\ notion.reviews[i].score = 10
          /\ notion.reviews[j].title = decision_id \o ":cfo"
          /\ notion.reviews[j].score = 9

(***************************************************************************)
(* Properties: what the persist step leaves in the store                   *)
(***************************************************************************)
\* the persist step of the run has completed without error
PersistCompleted == pc = "END" /\ status = "PERSISTED"

\* C18 (persist completeness): after a persist step that completed without
\* error, on every gate branch, the store holds exactly one verdict record
\* for each of the four reviewer roles, carrying the score and blocked flag
\* of that reviewer's verdict, and exactly one "Chairperson" record, whose
\* blocked flag is true exactly when the final_recommendation of the
\* Synthesis is "Blocked".
C18_PersistComplete ==
    PersistCompleted =>
        /\ gate \in {"blocked", "revision_required", "approved"}
        /\ \A i \in DOMAIN ReviewerKeys :
              LET recs == RecordsWithKey(notion, decision_id \o ":" \o ReviewerKeys[i])
              IN  /\ Cardinality(recs) = 1
                  /\ \A r \in recs :
                        /\ notion.reviews[r].score = reviews[ReviewerKeys[i]].score
                        /\ notion.reviews[r].blocked = reviews[ReviewerKeys[i]].blocked
        /\ LET recs == RecordsWithKey(notion, decision_id \o ":Chairperson")
           IN  /\ Cardinality(recs) = 1
               /\ \A r \in recs :
                     notion.reviews[r].blocked
                        = (synthesis["final_recommendation"] = JStr("Blocked"))

\* a run that took the revision branch has persisted, its Chairperson record
\* is not blocking although a recommendation other than "Approved" was given
C18_Witness ==
    /\ PersistCompleted
    /\ gate = "revision_required"
    /\ synthesis["final_recommendation"] = JStr("Challenged")
    /\ \E r \in RecordsWithKey(notion, decision_id \o ":Chairperson") :
          ~notion.reviews[r].blocked
    /\ Len(notion.reviews) = Len(PersistedRoles)

(***************************************************************************)
(* Properties: status writes                                               *)
(***************************************************************************)
\* the step has begun in this run
Begun(node) == \E i \in DOMAIN trace : trace[i] = node

\* the statuses the gate has written: those written after the build step's
GateWrites == SubSeq(notion.status_writes, 2, Len(notion.status_writes))

\* C19 (gate status write): when the expand or the persist step begins, and
\* ever after, the gate has written exactly one status for the document,
\* "Blocked" for category blocked, "Challenged" for revision_required and
\* "Approved" for approved, the category being the one the run branches on;
\* and when the gate's write fails, neither expand nor persist begins and the
\* gate has written nothing.
C19_GateStatusWrite ==
    /\ (pc \in {"generate_prd", "persist_artifacts"} \/ Begun("generate_prd")
            \/ Begun("persist_artifacts")) =>
          /\ gate = GateCategory(reviews, dqs)
          /\ GateWrites = <<CASE gate = "blocked" -> "Blocked"
                              [] gate = "revision_required" -> "Challenged"
                              [] gate = "approved" -> "Approved">>
          /\ pc \in {"generate_prd", "persist_artifacts"} =>
                StoreStatus(notion) = GateWrites[1]
    /\ (pc = "ABORTED" /\ trace[Len(trace)] = "_decide_gate") =>
          /\ error = NotionError
          /\ GateWrites = <<>>
          /\ ~Begun("generate_prd")
          /\ ~Begun("persist_artifacts")

\* the gate has written "Challenged" and the persist step is about to begin
C19_Witness ==
    /\ pc = "persist_artifacts"
    /\ ~Begun("persist_artifacts")
    /\ gate = "revision_required"
    /\ GateWrites = <<"Challenged">>
    /\ StoreStatus(notion) = "Challenged"

\* C20 (build status write): once the build step has completed, the one
\* status it wrote is "Under Evaluation" exactly when the missing-field list
\* is empty and "Incomplete" otherwise; the list is the one computed from the
\* document's properties with every inferred-true check applied to its
\* checkbox, and it is the list held in missing_sections.
C20_BuildStatusWrite ==
    pc = "executive_review" =>
        LET props == decision_snapshot.properties
            inferred == infer_governance_checks_from_text(notion.body_text)
            missing == evaluate_required_gates(props, inferred)
        IN  /\ \A g \in GovernanceChecks :
                  (inferred[g] /\ g \in DOMAIN props /\ "checkbox" \in DOMAIN props[g])
                      => props[g]["checkbox"] = JBool(TRUE)
            /\ missing_sections = missing
            /\ notion.status_writes
                  = <<IF missing = <<>> THEN "Under Evaluation" ELSE "Incomplete">>
            /\ (StoreStatus(notion) = "Under Evaluation") <=> (missing_sections = <<>>)
            /\ (StoreStatus(notion) = "Incomplete") <=> (missing_sections # <<>>)

\* the build step has completed on a document that lacks its Target and had
\* checkboxes set from its text: it is reported "Incomplete"
C20_Witness ==
    /\ pc = "executive_review"
    /\ missing_sections = <<"Target">>
    /\ decision_snapshot.computed.autochecked_governance_fields # <<>>
    /\ notion.status_writes = <<"Incomplete">>

(***************************************************************************)
(* Governance harness: the build step is run on documents whose properties *)
(* and body text cover the cases of gates.py: a scalar field present,      *)
(* absent or empty; a checkbox absent, unticked or ticked; a check that    *)
(* the text does not mention, supports, or declines with "<name>: no".     *)
(***************************************************************************)
\* every trigger phrase of a check
TriggerPhrases(gate_name) ==
    UNION {TriggerGroups(gate_name)[i] : i \in DOMAIN TriggerGroups(gate_name)}

\* a body text that supports or declines the checks as said ("silent",
\* "supported", "declined"); a declined check has its trigger phrases too
GovText(said, options, numerics) ==
    [contains |->
        UNION {TriggerPhrases(g) : g \in {h \in DOMAIN said : said[h] # "silent"}}
        \cup {ExplicitNoPhrase(g) : g \in {h \in DOMAIN said : said[h] = "declined"}},
     option_matches |-> options,
     numeric_matches |-> numerics]

\* page properties with the scalar fields and checkboxes as said ("absent",
\* "empty" or "set" for a scalar; "absent", "unticked" or "ticked" for a box)
GovProps(scalars, boxes) ==
    [n \in {"Status", "Decision Name"}
           \cup {s \in DOMAIN scalars : scalars[s] # "absent"}
           \cup {b \in DOMAIN boxes : boxes[b] # "absent"} |->
        CASE n = "Status" -> StatusProp("Proposed")
          [] n = "Decision Name" -> TitleProp("Checkout redesign")
          [] n \in {"Baseline", "Target"} ->
                 IF scalars[n] = "set" THEN NumberProp(100)
                 ELSE [type |-> JStr("number"), number |-> None]
          [] n = "Time Horizon" ->
                 IF scalars[n] = "set" THEN SelectProp("Quarterly")
                 ELSE SelectProp("")
          [] OTHER -> CheckboxProp(boxes[n] = "ticked")]

ScalarFields == <<"Baseline", "Target", "Time Horizon">>

\* how a check stands in a document: its checkbox and what the text says
GateSituations ==
    {<<"absent", "silent">>, <<"absent", "supported">>, <<"ticked", "silent">>,
     <<"unticked", "supported">>, <<"unticked", "declined">>}

GovInit ==
    /\ RunnerOff
    /\ TextOff
    /\ pc = Edge("START")
    /\ decision_snapshot = None
    /\ reviews = <<>>
    /\ dqs = F_0_0
    /\ status = "PROPOSED"
    /\ synthesis = None
    /\ prd = None
    /\ missing_sections = <<>>
    /\ decision_name = "Decision " \o decision_id
    /\ gate = "none"
    /\ LET GovDocuments ==
            \* the six required gates in every situation, the scalar fields set
            {[properties |->
                  GovProps([s \in Distinct(ScalarFields) |-> "set"],
                           [g \in Distinct(REQUIRED_BOOLEAN_GATES) |-> sit[g][1]]),
              body_text |->
                  GovText([g \in Distinct(REQUIRED_BOOLEAN_GATES) |-> sit[g][2]],
                          <<"option a", "option b", "option c">>, <<"5", "8", "120000">>)] :
                sit \in [Distinct(REQUIRED_BOOLEAN_GATES) -> GateSituations]}
            \cup
            \* the scalar fields in every situation, the counted patterns at and
            \* under their thresholds, every required gate supported by the text
            {[properties |-> GovProps(scalars, <<>>),
              body_text |->
                  GovText([g \in Distinct(REQUIRED_BOOLEAN_GATES) |-> "supported"],
                          options, numerics)] :
                scalars \in [Distinct(ScalarFields) -> {"absent", "empty", "set"}],
                options \in {<<"option a", "option b", "option c">>,
                             <<"option a", "option b", "option a">>},
                numerics \in {<<"5", "8", "120000">>, <<"5", "8">>}}
            \cup
            \* the eight other checks unticked, and silent, supported or declined
            {[properties |->
                  GovProps([s \in Distinct(ScalarFields) |-> "set"],
                           [g \in GovernanceChecks |->
                               IF g \in Distinct(REQUIRED_BOOLEAN_GATES) THEN "ticked"
                               ELSE "unticked"]),
              body_text |->
                  GovText(said, <<"option a", "option b", "option c">>,
                          <<"5", "8", "120000">>)] :
                said \in [GovernanceChecks \ Distinct(REQUIRED_BOOLEAN_GATES) ->
                             {"silent", "supported", "declined"}]}
       IN  notion \in {[properties |-> d.properties, body_text |-> d.body_text,
                        reviews |-> <<>>, prds |-> <<>>,
                        status_writes |-> <<>>] : d \in GovDocuments}
    /\ calls = [a \in AgentNames |-> <<>>]
    /\ trace = <<>>
    /\ error = NoError
    /\ AdapterOff

GovNext ==
    \/ _build_decision_node

GovSpec == GovInit /\ [][GovNext]_vars

\* the item of the fixed list is satisfied by the properties the snapshot
\* holds and the checks inferred from the text
Satisfied(item, props, inferred) ==
    CASE item \in {"Baseline", "Target"} ->
             /\ item \in DOMAIN props
             /\ "number" \in DOMAIN props[item]
             /\ props[item]["number"] # None
      [] item = "Time Horizon" ->
             /\ item \in DOMAIN props
             /\ "select" \in DOMAIN props[item]
             /\ props[item]["select"].t = "dict"
             /\ "name" \in DOMAIN props[item]["select"].v
             /\ props[item]["select"].v["name"] \notin {None, JStr("")}
      [] OTHER ->
             \/ /\ item \in DOMAIN props
                /\ "checkbox" \in DOMAIN props[item]
                /\ props[item]["checkbox"] = JBool(TRUE)
             \/ inferred[item]

\* C21 (required gates): the list evaluate_required_gates returns is exactly
\* the part of Baseline, Target, Time Horizon and the six required gates, in
\* that order, made of the unsatisfied items; it is empty if and only if the
\* three scalar fields are present and the six gates are satisfied.
C21_RequiredGates ==
    pc = "executive_review" =>
        LET props == decision_snapshot.properties
            inferred == decision_snapshot.computed.inferred_governance_checks
            fixed == ScalarFields \o REQUIRED_BOOLEAN_GATES
            unsatisfied == {item \in Distinct(fixed) : ~Satisfied(item, props, inferred)}
        IN  /\ missing_sections = SelectSeqBy(fixed, unsatisfied)
            /\ (missing_sections = <<>>) <=>
                   \A item \in Distinct(fixed) : Satisfied(item, props, inferred)

\* two gates are unsatisfied, one declined by the text and one not mentioned,
\* while a third is satisfied by inference alone
C21_Witness ==
    /\ pc = "executive_review"
    /\ missing_sections = <<"Problem Quantified", "Kill Criteria Defined">>
    /\ "problem quantified: no" \in notion.body_text.contains
    /\ "kill criteria" \notin notion.body_text.contains
    /\ "Success Metrics Defined" \notin DOMAIN decision_snapshot.properties

\* the text declines the check: it contains "<check name>: no"
Declined(g) == ExplicitNoPhrase(g) \in notion.body_text.contains

\* the explicit checkbox of the check is true
Ticked(g) ==
    /\ g \in DOMAIN decision_snapshot.properties
    /\ "checkbox" \in DOMAIN decision_snapshot.properties[g]
    /\ decision_snapshot.properties[g]["checkbox"] = JBool(TRUE)

\* C22 as stated (explicit-no override): for each of the fourteen checks, a
\* text that contains "<check name>: no" makes the inferred value false
\* whatever else it contains, and the check is then in the missing list
\* unless its checkbox is true.
C22_ExplicitNoAllChecks ==
    pc = "executive_review" =>
        \A g \in GovernanceChecks :
            Declined(g) =>
                /\ ~decision_snapshot.computed.inferred_governance_checks[g]
                /\ ~Ticked(g) => g \in Distinct(missing_sections)

\* C22 (explicit-no override, amended): for each of the fourteen checks, a
\* text that contains "<check name>: no" makes the inferred value false
\* whatever trigger phrases and counted patterns it also contains; a declined
\* check that is one of the six required gates is in the missing list unless
\* its checkbox is true, and the eight other checks are never in the list.
C22_ExplicitNoOverride ==
    pc = "executive_review" =>
        \A g \in GovernanceChecks :
            /\ Declined(g) =>
                  /\ ~decision_snapshot.computed.inferred_governance_checks[g]
                  /\ g \notin Distinct(decision_snapshot.computed.autochecked_governance_fields)
                  /\ (g \in Distinct(REQUIRED_BOOLEAN_GATES) /\ ~Ticked(g))
                        => g \in Distinct(missing_sections)
            /\ g \notin Distinct(REQUIRED_BOOLEAN_GATES) => g \notin Distinct(missing_sections)

\* the text declines Problem Quantified while carrying its trigger phrases
\* and three numbers, the box is not ticked, and the gate is missing
C22_Witness ==
    /\ pc = "executive_review"
    /\ Declined("Problem Quantified")
    /\ TriggerPhrases("Problem Quantified") \subseteq notion.body_text.contains
    /\ Len(notion.body_text.numeric_matches) >= MinNumericMatches
    /\ ~Ticked("Problem Quantified")
    /\ "Problem Quantified" \in Distinct(missing_sections)

(***************************************************************************)
(* Properties: the score                                                   *)
(***************************************************************************)
\* C23 (DQS range): in every state reached after the score step, the
\* decision-quality score, as the double the step computed, is at least 1.0
\* and at most 10.0, whatever verdicts the review step stored.
C23_DqsRange ==
    (Begun("calculate_dqs") /\ pc # "calculate_dqs") =>
        /\ ~FLess(dqs, FInt(ScoreMin))
        /\ ~FLess(FInt(ScoreMax), dqs)
        /\ \A k \in DOMAIN reviews : reviews[k].score \in ScoreMin..ScoreMax

\* the score step has run on four verdicts of score 10 and on nothing less:
\* the score is exactly 10.0
C23_Witness ==
    /\ pc = "_decide_gate"
    /\ Begun("calculate_dqs")
    /\ \A k \in DOMAIN reviews : reviews[k].score = ScoreMax
    /\ dqs = FInt(ScoreMax)

(***************************************************************************)
(* Text engine of the requirements document (decision_workflow.py).  A     *)
(* Python str is a TLA+ string, read character by character with SubSeq.   *)
(***************************************************************************)
Whitespace == {" ", "\t", "\n"}

\* str.lower(), for the ASCII letters; the string is halved to keep the nesting shallow
RECURSIVE str_lower(_)
str_lower(s) ==
    IF s = "" THEN ""
    ELSE IF Len(s) = 1
    THEN LET upper == "ABCDEFGHIJKLMNOPQRSTUVWXYZ"
             lower == "abcdefghijklmnopqrstuvwxyz"
             letter(i) == SubSeq(lower, i, i)
         IN  IF \A i \in 1..26 : SubSeq(upper, i, i) # s THEN s
             ELSE letter(CHOOSE i \in 1..26 : SubSeq(upper, i, i) = s)
    ELSE LET half == Len(s) \div 2
         IN  str_lower(SubSeq(s, 1, half)) \o str_lower(SubSeq(s, half + 1, Len(s)))

\* str.startswith(prefix)
startswith(s, prefix) == Len(s) >= Len(prefix) /\ SubSeq(s, 1, Len(prefix)) = prefix

\* str.find(sub): the first index (from 1) at which sub occurs, 0 when it does not
str_find(s, sub) ==
    LET first(at) == IF at = {} THEN 0 ELSE CHOOSE i \in at : \A j \in at : i <= j
    IN  first({i \in 1..(Len(s) - Len(sub) + 1) : SubSeq(s, i, i + Len(sub) - 1) = sub})

\* str.replace(old, new): occurrences of old are replaced from left to right
RECURSIVE str_replace(_, _, _)
str_replace(s, old, new) ==
    LET replaced(i) ==
            IF i = 0 THEN s
            ELSE SubSeq(s, 1, i - 1) \o new \o str_replace(SubSeq(s, i + Len(old), Len(s)), old, new)
    IN  replaced(str_find(s, old))

\* str.lstrip(chars) and str.rstrip(chars)
str_lstrip(s, chars) ==
    LET from(keep) ==
            IF keep = {} THEN "" ELSE SubSeq(s, CHOOSE i \in keep : \A j \in keep : i <= j, Len(s))
    IN  from({i \in 1..Len(s) : SubSeq(s, i, i) \notin chars})

str_rstrip(s, chars) ==
    LET upto(keep) ==
            IF keep = {} THEN "" ELSE SubSeq(s, 1, CHOOSE i \in keep : \A j \in keep : i >= j)
    IN  upto({i \in 1..Len(s) : SubSeq(s, i, i) \notin chars})

str_strip(s, chars) == str_lstrip(str_rstrip(s, chars), chars)

\* " ".join(s.split()): runs of whitespace become one space, none at the ends
RECURSIVE join_split(_)
join_split(s) ==
    LET cut(t, i) == SubSeq(t, 1, i - 1) \o " " \o join_split(SubSeq(t, i + 1, Len(t)))
        joined(t, gaps) ==
            IF gaps = {} THEN t ELSE cut(t, CHOOSE i \in gaps : \A j \in gaps : i <= j)
        gapped(t) == joined(t, {i \in 1..Len(t) : SubSeq(t, i, i) \in Whitespace})
    IN  gapped(str_strip(s, Whitespace))

LINE_PREFIXES_TO_STRIP ==
    <<"decision requirement:", "executive requirement:", "problem framing:",
      "options evaluated:", "financial model:", "kill criterion:", "decision memo:">>

\* the grave accent; a TLA+ string cannot hold it, so "~" stands for it
GraveAccent == "~"

\* the default of the max_len parameter
MaxLineLen == 260

\* the characters of strip(" -...") that an ASCII text can hold
EdgeChars == {" ", "-"}

\* text.replace("**", "").replace(grave accent, "").replace("\t", " "), then
\* " ".join(text.split()).strip(" -")
normalize_line(text) ==
    str_strip(join_split(str_replace(str_replace(str_replace(text, "**", ""), GraveAccent, ""),
                                     "\t", " ")),
              EdgeChars)

\* the for loop over LINE_PREFIXES_TO_STRIP: the first prefix the lowered line starts
\* with is cut off and the loop left
strip_first_prefix(normalized, lowered) ==
    IF \A i \in DOMAIN LINE_PREFIXES_TO_STRIP : ~startswith(lowered, LINE_PREFIXES_TO_STRIP[i])
    THEN normalized
    ELSE LET i == CHOOSE i \in DOMAIN LINE_PREFIXES_TO_STRIP :
                     /\ startswith(lowered, LINE_PREFIXES_TO_STRIP[i])
                     /\ \A j \in 1..(i - 1) : ~startswith(lowered, LINE_PREFIXES_TO_STRIP[j])
         IN  str_strip(SubSeq(normalized, Len(LINE_PREFIXES_TO_STRIP[i]) + 1, Len(normalized)),
                       Whitespace)

strip_prefix(normalized) == strip_first_prefix(normalized, str_lower(normalized))

\* normalized[:max_len].strip()
cut_line(normalized, max_len) ==
    str_strip(SubSeq(normalized, 1, IF Len(normalized) < max_len THEN Len(normalized) ELSE max_len),
              Whitespace)

\* the return statement of _clean_line: separators and bare labels give ""
noise_or_line(trimmed, lower_trimmed) ==
    IF lower_trimmed \in {"", "+", "|", "-", "chosen option", "trade-offs", "trade offs"}
    THEN ""
    ELSE trimmed

drop_noise(trimmed) == noise_or_line(trimmed, str_rstrip(str_lower(trimmed), {":"}))

_clean_line(text, max_len) ==
    drop_noise(cut_line(strip_prefix(normalize_line(text)), max_len))

\* ---------------------------------------------------------------------------
\* Calls of _clean_line
\* ---------------------------------------------------------------------------

\* s repeated n times
RECURSIVE Repeat(_, _)
Repeat(s, n) ==
    IF n = 0 THEN "" ELSE IF n = 1 THEN s
    ELSE Repeat(s, n \div 2) \o Repeat(s, n - n \div 2)

\* what a line of a decision document starts with: nothing, a bullet, a label
LineHeads == {"", "- ", "Decision requirement: ", "Problem framing: ", "Risk: ",
              "executive summary:", "Leading Indicators: ", "  **Success metrics:** "}

\* what follows: text, a bullet item, a label on its own, marked up text
LineCores == {"x", "- item", "Chosen option:", "Trade-offs", "two  words", "*~*x", "Option A: 5%", "|", ""}

\* lines longer than the bound, with the cut falling before, on and after a dash
LongLines == {Repeat("a", MaxLineLen - k) \o " -b" : k \in 0..3}

CleanInputs == {h1 \o h2 \o c : h1 \in LineHeads, h2 \in LineHeads, c \in LineCores} \cup LongLines

CleanInit ==
    /\ RunnerOff
    /\ PipelineIdle
    /\ AdapterOff
    /\ t_pc = "call"
    /\ t_in \in CleanInputs
    /\ t_out = None

\* one call _clean_line(text) with the default max_len
CleanLineCall ==
    /\ t_pc = "call"
    /\ t_out' = _clean_line(t_in, MaxLineLen)
    /\ t_pc' = "return"
    /\ UNCHANGED <<t_in, pipeline_vars, adapter_vars, runner_vars>>

CleanNext == \/ CleanLineCall

CleanSpec == CleanInit /\ [][CleanNext]_vars

\* C25: cleaning is idempotent: a line returned by _clean_line is returned unchanged
\* when it is cleaned once more.
C25_CleanIdempotent == t_pc = "return" => _clean_line(t_out, MaxLineLen) = t_out

\* ---------------------------------------------------------------------------
\* Literal dedup
\* ---------------------------------------------------------------------------

\* the for loop of _dedupe_keep_order from line i on, with its out list and seen set
RECURSIVE _dedupe_keep_order_loop(_, _, _, _, _)
_dedupe_keep_order_loop(lines, i, out, seen, limit) ==
    IF i > Len(lines) THEN out
    ELSE LET body(cleaned, key) ==
                 IF cleaned = "" \/ key \in seen THEN [continue |-> TRUE, out |-> out, seen |-> seen]
                 ELSE [continue |-> Len(out) + 1 < limit, out |-> Append(out, cleaned),
                       seen |-> seen \cup {key}]
             keyed(cleaned) == body(cleaned, str_lower(cleaned))
             next(step) == IF step.continue
                           THEN _dedupe_keep_order_loop(lines, i + 1, step.out, step.seen, limit)
                           ELSE step.out
         IN  next(keyed(_clean_line(lines[i], MaxLineLen)))

_dedupe_keep_order(lines, limit) == _dedupe_keep_order_loop(lines, 1, <<>>, {}, limit)

\* the longest list and the largest cap of a call
MaxLines == 3

\* lines that clean to the same value, to the same value up to case, to nothing
DedupeLines == {"x", "X", "- x", "", "Chosen option:", "y", "Risk: y"}

DedupeInit ==
    /\ RunnerOff
    /\ PipelineIdle
    /\ AdapterOff
    /\ t_pc = "call"
    /\ t_in \in [lines : UNION {[1..n -> DedupeLines] : n \in 0..MaxLines}, limit : 0..MaxLines]
    /\ t_out = None

DedupeKeepOrderCall ==
    /\ t_pc = "call"
    /\ t_out' = _dedupe_keep_order(t_in.lines, t_in.limit)
    /\ t_pc' = "return"
    /\ UNCHANGED <<t_in, pipeline_vars, adapter_vars, runner_vars>>

DedupeNext == \/ DedupeKeepOrderCall

DedupeSpec == DedupeInit /\ [][DedupeNext]_vars

\* the indices of lines that clean to a non-empty value not met, case-folded, before
FirstOccurrences(lines) ==
    {i \in DOMAIN lines :
        /\ _clean_line(lines[i], MaxLineLen) # ""
        /\ \A j \in 1..(i - 1) : str_lower(_clean_line(lines[j], MaxLineLen))
                                    # str_lower(_clean_line(lines[i], MaxLineLen))}

\* C26: the output of _dedupe_keep_order lists first occurrences of cleaned non-empty
\* inputs in their original order, holds no two items equal after case-folding,
\* and is no longer than the requested cap.
C26_LiteralDedup ==
    t_pc = "return" =>
        /\ \E f \in [DOMAIN t_out -> FirstOccurrences(t_in.lines)] :
              /\ \A i \in DOMAIN t_out : t_out[i] = _clean_line(t_in.lines[f[i]], MaxLineLen)
              /\ \A i, j \in DOMAIN t_out : i < j => f[i] < f[j]
        /\ \A i, j \in DOMAIN t_out : i # j => str_lower(t_out[i]) # str_lower(t_out[j])
        /\ Len(t_out) <= t_in.limit

\* the part of C26 that does not depend on the cap being positive
C26_LiteralDedupPositiveCap ==
    (t_pc = "return" /\ t_in.limit >= 1) => C26_LiteralDedup

\* ---------------------------------------------------------------------------
\* Semantic dedup
\* ---------------------------------------------------------------------------

\* str.split(): the words between runs of whitespace
RECURSIVE str_split(_)
str_split(s) ==
    LET cut(t, i) == <<SubSeq(t, 1, i - 1)>> \o str_split(SubSeq(t, i + 1, Len(t)))
        words(t, gaps) ==
            IF t = "" THEN <<>>
            ELSE IF gaps = {} THEN <<t>>
            ELSE cut(t, CHOOSE i \in gaps : \A j \in gaps : i <= j)
        gapped(t) == words(t, {i \in 1..Len(t) : SubSeq(t, i, i) \in Whitespace})
    IN  gapped(str_strip(s, Whitespace))

\* sep.join(words)
RECURSIVE str_join(_, _)
str_join(sep, words) ==
    IF words = <<>> THEN ""
    ELSE IF Len(words) = 1 THEN words[1]
    ELSE words[1] \o sep \o str_join(sep, Tail(words))

\* re.sub(r"[^a-z0-9\s]", " ", s)
RECURSIVE sub_non_alnum(_)
sub_non_alnum(s) ==
    IF s = "" THEN ""
    ELSE IF Len(s) = 1
    THEN LET kept == "abcdefghijklmnopqrstuvwxyz0123456789"
         IN  IF s \in Whitespace \/ \E i \in 1..Len(kept) : SubSeq(kept, i, i) = s THEN s ELSE " "
    ELSE LET half == Len(s) \div 2
         IN  sub_non_alnum(SubSeq(s, 1, half)) \o sub_non_alnum(SubSeq(s, half + 1, Len(s)))

\* the words the second re.sub of _normalize_similarity_text blanks
StopWords == {"a", "an", "the", "to", "for", "of", "and", "or", "with", "all", "ensure", "perform",
              "conduct", "develop", "comprehensive", "thorough", "potential", "required"}

\* after the first re.sub a word boundary is a whitespace boundary, so the second
\* re.sub drops whole words and the third joins what is left by single spaces
_normalize_similarity_text(text) ==
    LET words == str_split(sub_non_alnum(str_lower(text)))
    IN  str_join(" ", SelectSeq(words, LAMBDA w : w \notin StopWords))

\* SequenceMatcher.find_longest_match over whole a and b, no junk: the longest
\* common block, the earliest in a and then the earliest in b; <<i, j, k>>, k = 0 for none
find_longest_match(a, b) ==
    LET longest(blocks) ==
            IF blocks = {} THEN <<0, 0, 0>>
            ELSE CHOOSE m \in blocks : \A n \in blocks :
                    \/ m[3] > n[3]
                    \/ m[3] = n[3] /\ m[1] < n[1]
                    \/ m[3] = n[3] /\ m[1] = n[1] /\ m[2] <= n[2]
    IN  longest({m \in (1..Len(a)) \X (1..Len(b)) \X (1..Len(a)) :
                    /\ m[1] + m[3] - 1 <= Len(a)
                    /\ m[2] + m[3] - 1 <= Len(b)
                    /\ SubSeq(a, m[1], m[1] + m[3] - 1) = SubSeq(b, m[2], m[2] + m[3] - 1)})

\* the sum of the sizes of SequenceMatcher.get_matching_blocks(): the longest block,
\* then the same to its left and to its right
RECURSIVE matches(_, _)
matches(a, b) ==
    IF a = "" \/ b = "" THEN 0
    ELSE LET around(m) ==
                 IF m[3] = 0 THEN 0
                 ELSE m[3] + matches(SubSeq(a, 1, m[1] - 1), SubSeq(b, 1, m[2] - 1))
                           + matches(SubSeq(a, m[1] + m[3], Len(a)), SubSeq(b, m[2] + m[3], Len(b)))
         IN  around(find_longest_match(a, b))

\* SequenceMatcher(None, a, b).ratio() >= similarity, similarity in hundredths:
\* ratio() is 2.0 * matches / (len(a) + len(b)), and 1.0 for two empty strings
ratio_at_least(a, b, similarity) ==
    IF Len(a) + Len(b) = 0 THEN 100 >= similarity
    ELSE 200 * matches(a, b) >= similarity * (Len(a) + Len(b))

\* one pass of the for loop of _dedupe_semantic on a cleaned line and its normalized
\* form: the lists after it, and whether the loop goes on
semantic_step(cleaned, normalized, out, normalized_out, limit, similarity) ==
    IF \/ cleaned = ""
       \/ \E p \in DOMAIN normalized_out :
             \/ normalized = normalized_out[p]
             \/ ratio_at_least(normalized, normalized_out[p], similarity)
    THEN [continue |-> TRUE, out |-> out, normalized_out |-> normalized_out]
    ELSE [continue |-> Len(out) + 1 < limit, out |-> Append(out, cleaned),
          normalized_out |-> Append(normalized_out, normalized)]

\* _normalize_similarity_text(cleaned) or cleaned.lower()
normalized_or_lower(cleaned, normal) == IF normal = "" THEN str_lower(cleaned) ELSE normal

semantic_pass(cleaned, out, normalized_out, limit, similarity) ==
    semantic_step(cleaned, normalized_or_lower(cleaned, _normalize_similarity_text(cleaned)),
                  out, normalized_out, limit, similarity)

\* the for loop of _dedupe_semantic from line i on, with its out and normalized_out lists
RECURSIVE _dedupe_semantic_loop(_, _, _, _, _, _)
_dedupe_semantic_loop(lines, i, out, normalized_out, limit, similarity) ==
    IF i > Len(lines) THEN out
    ELSE LET next(step) == IF step.continue
                           THEN _dedupe_semantic_loop(lines, i + 1, step.out, step.normalized_out,
                                                      limit, similarity)
                           ELSE step.out
         IN  next(semantic_pass(_clean_line(lines[i], MaxLineLen), out, normalized_out,
                                limit, similarity))

_dedupe_semantic(lines, limit, similarity) ==
    _dedupe_semantic_loop(lines, 1, <<>>, <<>>, limit, similarity)

\* the default of the similarity parameter and the values the callers pass, in hundredths
SimilarityDefault == 86
Similarities == {80, SimilarityDefault, 88}

\* the longest list and the largest cap of a call of _dedupe_semantic
MaxSemanticLines == 3

\* lines that normalize to the same text, to close texts, to far texts, to nothing
SemanticLines == {"aaabaaba", "aaabbaaa", "Ensure the aaabaaba", "abcdefg", "abcdefgh",
                  "the", "xyz", "Trade-offs:"}

SemanticInit ==
    /\ RunnerOff
    /\ PipelineIdle
    /\ AdapterOff
    /\ t_pc = "call"
    /\ t_in \in [lines : UNION {[1..n -> SemanticLines] : n \in 0..MaxSemanticLines},
                 limit : 0..MaxSemanticLines, similarity : Similarities]
    /\ t_out = None

DedupeSemanticCall ==
    /\ t_pc = "call"
    /\ t_out' = _dedupe_semantic(t_in.lines, t_in.limit, t_in.similarity)
    /\ t_pc' = "return"
    /\ UNCHANGED <<t_in, pipeline_vars, adapter_vars, runner_vars>>

SemanticNext == \/ DedupeSemanticCall

SemanticSpec == SemanticInit /\ [][SemanticNext]_vars

\* the normalized form of a cleaned line, with the fallback for an empty one
NormalizedForm(cleaned) ==
    LET normal == _normalize_similarity_text(cleaned)
    IN  IF normal = "" THEN str_lower(cleaned) ELSE normal

\* the survivors are first occurrences in input order: f maps output positions to
\* input positions, and a line is kept when it differs from every earlier survivor
\* and the cap is not reached
KeptInOrder(f) ==
    /\ \A i \in DOMAIN t_out : t_out[i] = _clean_line(t_in.lines[f[i]], MaxLineLen)
    /\ \A i, j \in DOMAIN t_out : i < j => f[i] < f[j]
    /\ \A k \in DOMAIN t_in.lines :
          LET cleaned == _clean_line(t_in.lines[k], MaxLineLen)
              earlier == {i \in DOMAIN t_out : f[i] < k}
          IN  (/\ cleaned # ""
               /\ Cardinality(earlier) < t_in.limit
               /\ \A i \in earlier :
                     /\ NormalizedForm(cleaned) # NormalizedForm(t_out[i])
                     /\ ~ratio_at_least(NormalizedForm(cleaned), NormalizedForm(t_out[i]),
                                        t_in.similarity))
              => \E i \in DOMAIN t_out : f[i] = k

\* C27: no two lines of the output of _dedupe_semantic have equal normalized forms or
\* a similarity ratio at or above the threshold; survivors keep input order, first
\* occurrence winning, and a line that differs from every earlier survivor is kept
\* while the cap is not reached.
C27_SemanticDedup ==
    t_pc = "return" =>
        /\ \A i, j \in DOMAIN t_out : i # j =>
              /\ NormalizedForm(t_out[i]) # NormalizedForm(t_out[j])
              /\ ~ratio_at_least(NormalizedForm(t_out[i]), NormalizedForm(t_out[j]), t_in.similarity)
        /\ \E f \in [DOMAIN t_out -> DOMAIN t_in.lines] : KeptInOrder(f)

\* C27 with the ratio taken as the loop takes it, the later line first
C27_SemanticDedupLaterFirst ==
    t_pc = "return" =>
        /\ \A i, j \in DOMAIN t_out : i < j =>
              /\ NormalizedForm(t_out[i]) # NormalizedForm(t_out[j])
              /\ ~ratio_at_least(NormalizedForm(t_out[j]), NormalizedForm(t_out[i]), t_in.similarity)
        /\ \E f \in [DOMAIN t_out -> DOMAIN t_in.lines] : KeptInOrder(f)

\* ---------------------------------------------------------------------------
\* The sections of the requirements document
\* ---------------------------------------------------------------------------

LABEL_ONLY_PHRASES ==
    {"objective supported", "kpi impact", "cost of inaction", "clear problem statement",
     "root cause", "affected segment", "quantified impact", "chosen option", "trade-offs",
     "trade offs", "primary metric", "leading indicators", "review cadence", "criteria",
     "revenue impact (12m)", "cost impact", "margin effect", "payback period",
     "confidence level", "risk", "impact", "probability", "mitigation",
     "we will stop or pivot if"}

\* sub in s
contains(s, sub) == str_find(s, sub) # 0

\* str.endswith(suffix)
endswith(s, suffix) ==
    Len(s) >= Len(suffix) /\ SubSeq(s, Len(s) - Len(suffix) + 1, Len(s)) = suffix

\* the length of the longest prefix of s made of characters of the string chars
run_length(s, chars) ==
    LET before(stops) ==
            IF stops = {} THEN Len(s) ELSE (CHOOSE i \in stops : \A j \in stops : i <= j) - 1
    IN  before({i \in 1..Len(s) : ~contains(chars, SubSeq(s, i, i))})

LowerAlnum == "abcdefghijklmnopqrstuvwxyz0123456789"
Alnum == "ABCDEFGHIJKLMNOPQRSTUVWXYZ" \o LowerAlnum

\* re.fullmatch(r"option\s+[a-z0-9]+(?:\s*\(.+\))?", tail)
option_label_fullmatch(tail) ==
    /\ startswith(tail, "option")
    /\ LET \* the optional group: a parenthesis to the end of the text, after optional whitespace
           group(rest) ==
               /\ Len(rest) >= 3
               /\ startswith(rest, "(")
               /\ endswith(rest, ")")
               /\ ~contains(rest, "\n")
           \* n characters of [a-z0-9]+, then the group or the end of the text
           labelled(label, n) ==
               /\ n >= 1
               /\ \/ n = Len(label)
                  \/ group(str_lstrip(SubSeq(label, n + 1, Len(label)), Whitespace))
           \* \s+ takes at least one character
           spaced(after, label) ==
               /\ Len(label) < Len(after)
               /\ labelled(label, run_length(label, LowerAlnum))
           option(after) == spaced(after, str_lstrip(after, Whitespace))
       IN  option(SubSeq(tail, 7, Len(tail)))

\* s.split(":")[-1]
after_last_colon(s) ==
    LET after(colons) ==
            IF colons = {} THEN s
            ELSE SubSeq(s, (CHOOSE i \in colons : \A j \in colons : i >= j) + 1, Len(s))
    IN  after({i \in 1..Len(s) : SubSeq(s, i, i) = ":"})

\* what follows the last colon is nothing, a label phrase, a joiner or an option label
label_tail(tail) ==
    \/ tail = ""
    \/ tail \in LABEL_ONLY_PHRASES
    \/ tail \in {"combine", "+"}
    \/ option_label_fullmatch(tail)

\* what precedes a closing colon is nothing, a label phrase or at most four words
label_core(core) ==
    \/ core = ""
    \/ core \in LABEL_ONLY_PHRASES
    \/ Len(str_split(core)) <= 4

label_only(normalized) ==
    \/ normalized = ""
    \/ normalized \in LABEL_ONLY_PHRASES
    \/ normalized \in {"combine", "+"}
    \/ /\ contains(normalized, ":")
       /\ label_tail(str_strip(after_last_colon(normalized), Whitespace))
    \/ /\ endswith(normalized, ":")
       /\ label_core(str_strip(SubSeq(normalized, 1, Len(normalized) - 1), Whitespace))

_is_label_only_line(line) ==
    label_only(str_strip(str_lower(_clean_line(line, MaxLineLen)), Whitespace))

DECISION_SOURCE_HEADINGS ==
    <<"Executive Summary", "1. Strategic Context", "2. Problem Framing", "3. Options Evaluated",
      "4. Financial Model", "5. Risk Matrix", "6. Final Decision", "7. Kill Criteria",
      "8. Monitoring Plan">>

\* str.find(sub, start), indices from 1, 0 when sub does not occur at or after start
str_find_from(s, sub, start) ==
    LET first(at) == IF at = {} THEN 0 ELSE CHOOSE i \in at : \A j \in at : i <= j
    IN  first({i \in start..(Len(s) - Len(sub) + 1) : SubSeq(s, i, i + Len(sub) - 1) = sub})

_extract_decision_section(body_text, heading) ==
    LET \* the section ends before the nearest other heading found after its start
        section(content_start, found) ==
            str_strip(SubSeq(body_text, content_start,
                             (IF found = {} THEN Len(body_text) + 1
                              ELSE CHOOSE idx \in found : \A other \in found : idx <= other) - 1),
                      Whitespace)
        ends(lowered, marker, content_start) ==
            section(content_start,
                    {idx \in {str_find_from(lowered, str_lower(DECISION_SOURCE_HEADINGS[h]),
                                            content_start) :
                                 h \in {h \in DOMAIN DECISION_SOURCE_HEADINGS :
                                           str_lower(DECISION_SOURCE_HEADINGS[h]) # marker}} :
                        idx # 0})
        starts(lowered, marker, marker_pos, newline) ==
            ends(lowered, marker,
                 IF newline = 0 THEN marker_pos + Len(heading) ELSE newline + 1)
        located(lowered, marker, marker_pos) ==
            IF marker_pos = 0 THEN ""
            ELSE starts(lowered, marker, marker_pos, str_find_from(body_text, "\n", marker_pos))
        marked(lowered, marker) == located(lowered, marker, str_find(lowered, marker))
    IN  IF body_text = "" THEN "" ELSE marked(str_lower(body_text), str_lower(heading))

\* the pieces of s between occurrences of the character sep
RECURSIVE split_on(_, _)
split_on(s, sep) ==
    LET cut(i) ==
            IF i = 0 THEN <<s>> ELSE <<SubSeq(s, 1, i - 1)>> \o split_on(SubSeq(s, i + 1, Len(s)), sep)
    IN  cut(str_find(s, sep))

\* str.splitlines(), for "\n" line ends
splitlines(s) ==
    IF s = "" THEN <<>>
    ELSE IF endswith(s, "\n") THEN split_on(SubSeq(s, 1, Len(s) - 1), "\n")
    ELSE split_on(s, "\n")

\* re.split(r"(?<=[.!?])\s+", s)
RECURSIVE sentence_split(_)
sentence_split(s) ==
    LET \* the sentence before the whitespace at i, and the split of what follows that whitespace
        cut(i, rest) == <<SubSeq(s, 1, i - 1)>> \o sentence_split(str_lstrip(rest, Whitespace))
        at(i) == cut(i, SubSeq(s, i, Len(s)))
        first(cuts) == IF cuts = {} THEN <<s>> ELSE at(CHOOSE i \in cuts : \A j \in cuts : i <= j)
    IN  first({i \in 2..Len(s) : /\ SubSeq(s, i, i) \in Whitespace
                                  /\ SubSeq(s, i - 1, i - 1) \in {".", "!", "?"}})

\* [_clean_line(x) for x in items if _clean_line(x)]
cleaned_nonempty(items) ==
    SelectSeq([i \in DOMAIN items |-> _clean_line(items[i], MaxLineLen)],
              LAMBDA cleaned : cleaned # "")

\* a text of a single line is split into sentences
lines_or_sentences(lines) ==
    IF Len(lines) = 1 THEN cleaned_nonempty(sentence_split(lines[1])) ELSE lines

_section_lines(text, max_lines) ==
    IF text = "" THEN <<>>
    ELSE _dedupe_keep_order(SelectSeq(lines_or_sentences(cleaned_nonempty(splitlines(text))),
                                      LAMBDA line : ~_is_label_only_line(line)),
                            max_lines)

_requirement_topic_key(text) ==
    LET topic(lowered) ==
            IF contains(lowered, "downside model") \/ contains(lowered, "downside modeling")
            THEN "downside_modeling"
            ELSE IF contains(lowered, "compliance review") THEN "compliance_review"
            ELSE IF contains(lowered, "risk matrix") THEN "risk_matrix"
            ELSE ""
    IN  topic(str_lower(text))

\* the two nested loops of _reviews_required_changes over the changes of all reviews,
\* from change i on, with the lines list and the seen_topics set
RECURSIVE _reviews_required_changes_loop(_, _, _, _)
_reviews_required_changes_loop(changes, i, lines, seen_topics) ==
    IF i > Len(changes) THEN lines
    ELSE LET body(cleaned, topic_key) ==
                 IF cleaned = "" \/ (topic_key # "" /\ topic_key \in seen_topics)
                 THEN _reviews_required_changes_loop(changes, i + 1, lines, seen_topics)
                 ELSE _reviews_required_changes_loop(changes, i + 1, Append(lines, cleaned),
                                                     IF topic_key # "" THEN seen_topics \cup {topic_key}
                                                     ELSE seen_topics)
             keyed(cleaned) == body(cleaned, _requirement_topic_key(cleaned))
         IN  keyed(_clean_line(changes[i], MaxLineLen))

\* the concatenation of a list of lists
RECURSIVE Flatten(_)
Flatten(lists) == IF lists = <<>> THEN <<>> ELSE lists[1] \o Flatten(Tail(lists))

\* review_values: the values of the reviews dict in insertion order
_reviews_required_changes(review_values, limit) ==
    _dedupe_semantic(
        _reviews_required_changes_loop(
            Flatten([r \in DOMAIN review_values |-> review_values[r].required_changes]), 1, <<>>, {}),
        limit, SimilarityDefault)

_reviews_risk_evidence(review_values, limit) ==
    _dedupe_keep_order(
        Flatten([r \in DOMAIN review_values |->
                    [k \in DOMAIN review_values[r].risks |->
                        review_values[r].risks[k].type \o ": " \o review_values[r].risks[k].evidence]]),
        limit)

\* re.findall(r"Option\s+([A-Za-z0-9]+)\s*\(([^)]+)\)", text): the <<label, name>>
\* pairs of the matches, from left to right, a match starting where the last one ended
RECURSIVE option_findall(_)
option_findall(text) ==
    LET \* a match at "Option": whitespace, n label characters, optional whitespace, a
        \* parenthesis that closes at index close of paren_on with text inside
        found(at, after, label_on, n, paren_on, close) ==
            IF /\ Len(label_on) < Len(after)
               /\ n >= 1
               /\ startswith(paren_on, "(")
               /\ close >= 3
            THEN <<<<SubSeq(label_on, 1, n), SubSeq(paren_on, 2, close - 1)>>>>
                    \o option_findall(SubSeq(paren_on, close + 1, Len(paren_on)))
            ELSE option_findall(SubSeq(text, at + 1, Len(text)))
        closed(at, after, label_on, n, paren_on) ==
            found(at, after, label_on, n, paren_on, str_find(paren_on, ")"))
        named(at, after, label_on, n) ==
            closed(at, after, label_on, n,
                   str_lstrip(SubSeq(label_on, n + 1, Len(label_on)), Whitespace))
        labelled(at, after, label_on) == named(at, after, label_on, run_length(label_on, Alnum))
        spaced(at, after) == labelled(at, after, str_lstrip(after, Whitespace))
        from(at) == IF at = 0 THEN <<>> ELSE spaced(at, SubSeq(text, at + 6, Len(text)))
    IN  from(str_find(text, "Option"))

\* the loop of _final_decision_requirements over the section lines, from line i on
RECURSIVE _final_decision_requirements_loop(_, _, _, _)
_final_decision_requirements_loop(lines, i, requirements, has_options) ==
    IF i > Len(lines) THEN requirements
    ELSE LET added(line, lower_line) ==
                 IF \/ lower_line \in {"chosen option", "trade-offs", "trade offs"}
                    \/ lower_line \in {"combine", "+"}
                    \/ startswith(str_lower(line), "option ")
                    \/ (has_options /\ contains(lower_line, "combine option"))
                    \/ contains(lower_line, "trade-off")
                    \/ contains(lower_line, "trade off")
                 THEN <<>>
                 ELSE IF startswith(line, "Prioritize ") \/ startswith(line, "Focus ")
                 THEN <<"Trade-off guardrail: " \o str_rstrip(line, {"."}) \o ".">>
                 ELSE IF contains(lower_line, "phased rollout") /\ contains(lower_line, "option")
                 THEN <<str_rstrip(line, {"."})>>
                 ELSE <<>>
         IN  _final_decision_requirements_loop(
                 lines, i + 1,
                 requirements \o added(lines[i], str_rstrip(str_lower(lines[i]), {":"})),
                 has_options)

\* the requirement built from the deduplicated option descriptions
option_requirement(option_descriptions) ==
    IF Len(option_descriptions) = 1
    THEN <<"Implement " \o option_descriptions[1] \o " as the selected approach.">>
    ELSE <<"Implement a phased rollout combining "
             \o str_join(" + ", SubSeq(option_descriptions, 1,
                    IF Len(option_descriptions) < 3 THEN Len(option_descriptions) ELSE 3))
             \o ".">>

option_requirements(option_matches) ==
    IF option_matches = <<>> THEN <<>>
    ELSE option_requirement(
             _dedupe_keep_order(
                 [m \in DOMAIN option_matches |->
                     "Option " \o option_matches[m][1] \o " ("
                         \o str_strip(option_matches[m][2], Whitespace) \o ")"], 4))

clean_text_requirements(clean_text, option_matches) ==
    _dedupe_semantic(
        _final_decision_requirements_loop(_section_lines(clean_text, 12), 1,
                                          option_requirements(option_matches),
                                          option_matches # <<>>),
        5, 80)

matched_requirements(clean_text) ==
    clean_text_requirements(clean_text, option_findall(clean_text))

_final_decision_requirements(final_decision_text) ==
    IF final_decision_text = "" THEN <<>>
    ELSE matched_requirements(str_replace(final_decision_text, "**", ""))

\* str(n) of an int
RECURSIVE str_int(_)
str_int(n) ==
    IF n < 0 THEN "-" \o str_int(0 - n)
    ELSE IF n < 10 THEN SubSeq("0123456789", n + 1, n + 1)
    ELSE str_int(n \div 10) \o str_int(n % 10)

\* str(value) of a number of a property: an int, or a float held in hundredths
str_number(value) ==
    IF value.t = "int" THEN str_int(value.v)
    ELSE IF value.v % 100 = 0 THEN str_int(value.v \div 100)
    ELSE LET h == IF value.v < 0 THEN 0 - value.v ELSE value.v
             cents == h % 100
         IN  (IF value.v < 0 THEN "-" ELSE "") \o str_int(h \div 100) \o "."
                 \o (IF cents % 10 = 0 THEN str_int(cents \div 10)
                     ELSE str_int(cents \div 10) \o str_int(cents % 10))

\* (prop.get(kind) or {}).get("name", "")
option_name(prop, kind) ==
    LET sel == DictGet(prop, kind, None)
    IN  IF Truthy(sel) /\ sel.t = "dict" THEN DictGet(sel.v, "name", JStr("")).v ELSE ""

_property_value(properties, name) ==
    LET prop == PropertyGet(properties, name)
        prop_type == DictGet(prop, "type", None)
    IN  CASE prop_type = JStr("title") -> JoinPlainText(DictGet(prop, "title", JList(<<>>)).v)
          [] prop_type = JStr("rich_text") -> JoinPlainText(DictGet(prop, "rich_text", JList(<<>>)).v)
          [] prop_type = JStr("number") ->
                IF DictGet(prop, "number", None) = None THEN ""
                ELSE str_number(prop["number"])
          [] prop_type = JStr("select") -> option_name(prop, "select")
          [] prop_type = JStr("status") -> option_name(prop, "status")
          [] prop_type = JStr("checkbox") ->
                IF Truthy(DictGet(prop, "checkbox", None)) THEN "Yes" ELSE "No"
          [] prop_type \in {JStr("url"), JStr("email")} ->
                LET value == DictGet(prop, prop_type.v, JStr(""))
                IN  IF Truthy(value) THEN value.v ELSE ""
          [] OTHER -> ""

PRD_SECTION_DEFAULTS ==
    [section_name \in {"Goals", "Background", "Research", "User Stories", "Requirements",
                       "Telemetry", "UX/UI Design", "Experiment", "Q&A", "Notes"} |->
        CASE section_name = "Goals" -> "Define the north star: outcomes, why now, tie to OKRs."
          [] section_name = "Background" ->
                "Context: prior decisions, customer insights, incidents, gaps."
          [] section_name = "Research" -> "Market scans, competitive benchmarks, and evidence."
          [] section_name = "User Stories" ->
                "Use: \"As a [user], I want [action], so I can [benefit].\""
          [] section_name = "Requirements" ->
                "Functional, non-functional, and constraints. Make them testable."
          [] section_name = "Telemetry" ->
                "Events, properties, funnels, KPIs, dashboards, and review cadence."
          [] section_name = "UX/UI Design" ->
                "Capture UX flows, accessibility, and responsive design notes."
          [] section_name = "Experiment" ->
                "Hypothesis, KPIs, success/fail criteria, and sampling plan."
          [] section_name = "Q&A" -> "Open questions, blockers, and dependencies."
          [] section_name = "Notes" -> "Assumptions, pending decisions, and implementation notes."]

\* f"{x}" of an item of a synthesis list
format_item(x) ==
    CASE x.t = "str" -> x.v
      [] x.t = "int" -> str_int(x.v)
      [] x.t = "float" -> str_number(x)
      [] x.t = "bool" -> IF x.v THEN "True" ELSE "False"
      [] OTHER -> "None"

\* the formatted items a for loop over synthesis.get(field, []) visits: the items
\* of a list, the characters of a string (a dict is passed empty only)
iterate(synthesis_dict, field) ==
    LET x == DictGet(synthesis_dict, field, JList(<<>>))
    IN  CASE x.t = "list" -> [i \in DOMAIN x.v |-> format_item(x.v[i])]
          [] x.t = "str" -> [i \in 1..Len(x.v) |-> SubSeq(x.v, i, i)]
          [] OTHER -> <<>>

\* [item] if condition else []
When(condition, item) == IF condition THEN <<item>> ELSE <<>>

\* the telemetry loop of _build_prd_output over the monitoring plan lines
same_metric(norm, primary_metric_norm) ==
    /\ primary_metric_norm # ""
    /\ \/ norm = primary_metric_norm
       \/ contains(norm, primary_metric_norm)
       \/ contains(primary_metric_norm, norm)

other_metrics(lines, primary_metric_norm) ==
    SelectSeq(lines,
              LAMBDA line :
                  /\ ~startswith(str_lower(line), "primary metric")
                  /\ ~same_metric(_normalize_similarity_text(line), primary_metric_norm))

telemetry_lines(lines, primary_kpi) ==
    other_metrics(lines, IF primary_kpi # "" THEN _normalize_similarity_text(primary_kpi) ELSE "")

prefixed(prefix, items) == [i \in DOMAIN items |-> prefix \o items[i]]

\* lines or [default]
or_default(lines, default) == IF lines # <<>> THEN lines ELSE <<default>>

\* the lists of _build_prd_output, each from the property values and section texts it reads
goals_lines(objective, primary_kpi, baseline, target, time_horizon, strategic_context) ==
    _dedupe_keep_order(
        When(objective # "", "Strategic objective: " \o objective \o ".")
        \o When(primary_kpi # "",
                "North-star KPI: " \o primary_kpi \o "."
                \o (IF baseline # "" /\ target # ""
                    THEN " Baseline " \o baseline \o " -> Target " \o target \o "."
                    ELSE ""))
        \o When(time_horizon # "", "Planning horizon: " \o time_horizon \o ".")
        \o _section_lines(strategic_context, 4), 8)

background_lines(executive_summary, decision_type, owner) ==
    _dedupe_keep_order(
        _section_lines(executive_summary, 4)
        \o When(decision_type # "", "Decision type: " \o decision_type \o ".")
        \o When(owner # "", "Decision owner: " \o owner \o "."), 8)

research_lines(problem_framing, options_evaluated, financial_model, risk_matrix) ==
    _dedupe_semantic(
        _section_lines(problem_framing, 5) \o _section_lines(options_evaluated, 5)
        \o _section_lines(financial_model, 4) \o _section_lines(risk_matrix, 4), 10, 88)

user_stories_lines(body_lower) ==
    _dedupe_keep_order(
        or_default(
            When(contains(body_lower, "mobile"),
                 "As a mobile buyer, I want a fast and predictable checkout so I can complete purchases with low friction.")
            \o When(contains(body_lower, "bundle") \/ contains(body_lower, "recommendation"),
                    "As a returning buyer, I want relevant bundles and recommendations so I can discover complementary products quickly.")
            \o When(contains(body_lower, "international"),
                    "As an international buyer, I want transparent fulfillment and delivery options so I can purchase with confidence."),
            "As a buyer, I want a frictionless purchase flow so I can complete orders quickly and confidently."), 5)

requirements_lines(final_decision, review_values) ==
    _dedupe_semantic(
        _final_decision_requirements(final_decision)
        \o _reviews_required_changes(review_values, 5), 8, SimilarityDefault)

telemetry_section(primary_kpi, monitoring_plan) ==
    _dedupe_semantic(
        When(primary_kpi # "", "Primary metric: " \o primary_kpi \o ".")
        \o telemetry_lines(_section_lines(monitoring_plan, 8), primary_kpi), 8, 88)

ux_ui_design_lines(body_lower) ==
    _dedupe_keep_order(
        When(contains(body_lower, "mobile"),
             "Prioritize a simplified mobile checkout path with fewer steps and clear progress feedback.")
        \o When(contains(body_lower, "bundle") \/ contains(body_lower, "recommendation"),
                "Design recommendation and bundle surfaces on PDP/cart with clear relevance cues and opt-out controls.")
        \o <<"Ensure accessible interaction patterns (contrast, focus order, keyboard support, readable touch targets).",
             "Validate responsive behavior across core mobile breakpoints before rollout.">>, 6)

experiment_lines(primary_kpi, probability_of_success, time_horizon, kill_criteria) ==
    _dedupe_semantic(
        When(primary_kpi # "", "Hypothesis: improving checkout and merchandising will increase "
                                 \o primary_kpi \o ".")
        \o When(probability_of_success # "",
                "Initial probability of success estimate: " \o probability_of_success \o ".")
        \o When(time_horizon # "", "Experiment horizon: " \o time_horizon \o ".")
        \o _section_lines(kill_criteria, 4), 8, 88)

qa_lines(synthesis_dict) ==
    _dedupe_keep_order(
        or_default(
            prefixed("Open blocker: ", iterate(synthesis_dict, "blockers"))
            \o prefixed("Conflict to resolve: ", iterate(synthesis_dict, "conflicts"))
            \o prefixed("Required revision: ", iterate(synthesis_dict, "required_revisions")),
            "No additional unresolved questions were captured at synthesis time."), 8)

notes_lines(owner, investment_required, gross_benefit, risk_adjusted_roi, final_recommendation) ==
    _dedupe_keep_order(
        When(owner # "", "Owner: " \o owner \o ".")
        \o When(investment_required # "", "Investment required: " \o investment_required \o ".")
        \o When(gross_benefit # "", "12-month gross benefit estimate: " \o gross_benefit \o ".")
        \o When(risk_adjusted_roi # "", "Risk-adjusted ROI estimate: " \o risk_adjusted_roi \o ".")
        \o When(Truthy(final_recommendation),
                "Chairperson recommendation snapshot: " \o format_item(final_recommendation) \o "."),
        8)

\* risks = review_risks or matrix_risks, deduplicated
risks_lines(review_risks, matrix_risks) ==
    _dedupe_keep_order(IF review_risks # <<>> THEN review_risks ELSE matrix_risks, 8)

milestones_lines(time_horizon) ==
    <<IF time_horizon # ""
      THEN "Milestone 1 (" \o time_horizon \o " plan): finalize scope, instrumentation, and launch criteria."
      ELSE "Milestone 1: Finalize implementation scope, instrumentation plan, and rollout guardrails.",
      "Milestone 2: Ship core checkout + merchandising changes behind a controlled rollout.",
      "Milestone 3: Evaluate experiment outcomes against kill criteria and decide scale-up or rollback.">>

\* the PRDOutput of the return statement of _build_prd_output
PRDOutput(name, milestones, risks, goals, background, research, user_stories, requirements, telemetry, ux_ui_design, experiment, qa, notes) ==
    [title |-> "PRD for Decision " \o name,
     scope |-> or_default(_dedupe_keep_order(requirements \o goals, 8),
                          PRD_SECTION_DEFAULTS["Requirements"]),
     milestones |-> milestones,
     telemetry |-> or_default(_dedupe_keep_order(telemetry, 8),
                              PRD_SECTION_DEFAULTS["Telemetry"]),
     risks |-> or_default(risks, "No explicit risks were captured; complete risk review before execution."),
     sections |->
         [section_name \in DOMAIN PRD_SECTION_DEFAULTS |->
             or_default(CASE section_name = "Goals" -> goals
                          [] section_name = "Background" -> background
                          [] section_name = "Research" -> research
                          [] section_name = "User Stories" -> user_stories
                          [] section_name = "Requirements" -> requirements
                          [] section_name = "Telemetry" -> telemetry
                          [] section_name = "UX/UI Design" -> ux_ui_design
                          [] section_name = "Experiment" -> experiment
                          [] section_name = "Q&A" -> qa
                          [] section_name = "Notes" -> notes,
                        PRD_SECTION_DEFAULTS[section_name])]]

\* a Q&A loop of _build_prd_output iterates over a value that is not iterable
qa_loop_raises(synthesis_dict) ==
    \E field \in {"blockers", "conflicts", "required_revisions"} :
        ~Iterable(DictGet(synthesis_dict, field, JList(<<>>)))

\* _build_prd_output on a snapshot with the given properties and body text, a synthesis
\* dict ({} for None), the values of the reviews dict and the decision name
_build_prd_output_text(properties, body_text, synthesis_dict, review_values, name) ==
    IF qa_loop_raises(synthesis_dict)
    THEN [raised |-> TRUE, val |-> None]
    ELSE [raised |-> FALSE,
          val |-> PRDOutput(
              name,
              milestones_lines(_property_value(properties, "Time Horizon")),
              risks_lines(_reviews_risk_evidence(review_values, 6),
                          prefixed("Risk matrix: ",
                                   _section_lines(_extract_decision_section(body_text, "5. Risk Matrix"), 4))),
              goals_lines(_property_value(properties, "Strategic Objective"),
                          _property_value(properties, "Primary KPI"),
                          _property_value(properties, "Baseline"),
                          _property_value(properties, "Target"),
                          _property_value(properties, "Time Horizon"),
                          _extract_decision_section(body_text, "1. Strategic Context")),
              background_lines(_extract_decision_section(body_text, "Executive Summary"),
                               _property_value(properties, "Decision Type"),
                               _property_value(properties, "Owner")),
              research_lines(_extract_decision_section(body_text, "2. Problem Framing"),
                             _extract_decision_section(body_text, "3. Options Evaluated"),
                             _extract_decision_section(body_text, "4. Financial Model"),
                             _extract_decision_section(body_text, "5. Risk Matrix")),
              user_stories_lines(str_lower(body_text)),
              requirements_lines(_extract_decision_section(body_text, "6. Final Decision"),
                                 review_values),
              telemetry_section(_property_value(properties, "Primary KPI"),
                                _extract_decision_section(body_text, "8. Monitoring Plan")),
              ux_ui_design_lines(str_lower(body_text)),
              experiment_lines(_property_value(properties, "Primary KPI"),
                               _property_value(properties, "Probability of Success"),
                               _property_value(properties, "Time Horizon"),
                               _extract_decision_section(body_text, "7. Kill Criteria")),
              qa_lines(synthesis_dict),
              notes_lines(_property_value(properties, "Owner"),
                          _property_value(properties, "Investment Required"),
                          _property_value(properties, "12-Month Gross Benefit"),
                          _property_value(properties, "Risk-Adjusted ROI"),
                          DictGet(synthesis_dict, "final_recommendation", None)))]

\* ---------------------------------------------------------------------------
\* Calls of _build_prd_output
\* ---------------------------------------------------------------------------

RichTextProp(text) ==
    [type |-> JStr("rich_text"), rich_text |-> JList(<<JDict([plain_text |-> JStr(text)])>>)]

\* the properties of test_prd_sections_filter_label_only_lines_and_noise
PrdProps ==
    [n \in {"Strategic Objective", "Primary KPI", "Baseline", "Target", "Time Horizon",
            "Decision Type", "Owner"} |->
        CASE n = "Strategic Objective" -> RichTextProp("Increase APGA by 20% next quarter.")
          [] n = "Primary KPI" -> RichTextProp("APGA (African Products Going Abroad)")
          [] n = "Baseline" -> NumberProp(100)
          [] n = "Target" -> NumberProp(120)
          [] n = "Time Horizon" -> SelectProp("Next quarter")
          [] n = "Decision Type" -> SelectProp("Growth")
          [] n = "Owner" -> RichTextProp("CEO")]

\* lines under a heading of the body: labels on their own, a label behind two
\* prefixes and a bullet, and content
BodyLines == {"Chosen option:", "Trade-offs:", "Criteria",
              "Decision requirement: Problem framing: - Criteria", "Grow revenue now."}

BodyHeadings == {"1. Strategic Context", "7. Kill Criteria", "8. Monitoring Plan"}

PrdBodies ==
    {""} \cup {h \o "\n" \o l1 \o "\n" \o l2 \o "\n" : h \in BodyHeadings, l1 \in BodyLines, l2 \in BodyLines}

PrdSyntheses ==
    {<<>>,
     [blockers |-> JList(<<JStr("Open legal question")>>), conflicts |-> JList(<<>>),
      required_revisions |-> JList(<<JStr("Redo the model")>>),
      final_recommendation |-> JStr("Approved")],
     [blockers |-> None, final_recommendation |-> JStr("Blocked")],
     [blockers |-> JStr("none")]}

PrdReviews ==
    {<<>>,
     <<[required_changes |-> <<"Conduct downside modeling.", "Develop a downside model.">>,
        risks |-> <<>>],
       [required_changes |-> <<"Conduct a compliance review.">>,
        risks |-> <<[type |-> "execution", evidence |-> "Manageable risk."]>>]>>}

PrdInit ==
    /\ RunnerOff
    /\ PipelineIdle
    /\ AdapterOff
    /\ t_pc = "call"
    /\ t_in \in [properties : {<<>>}, body_text : PrdBodies, synthesis : {<<>>}, reviews : {<<>>}]
                \cup [properties : {<<>>, PrdProps}, body_text : {"", "1. Strategic Context\nCriteria\nGrow revenue now.\n"},
                      synthesis : PrdSyntheses, reviews : PrdReviews]
    /\ t_out = None

\* one call of _build_prd_output that returns
BuildPrdReturns ==
    /\ t_pc = "call"
    /\ LET returned(out) ==
               /\ ~out.raised
               /\ t_out' = out.val
       IN  returned(_build_prd_output_text(t_in.properties, t_in.body_text, t_in.synthesis,
                                           t_in.reviews, decision_name))
    /\ t_pc' = "return"
    /\ UNCHANGED <<t_in, pipeline_vars, adapter_vars, runner_vars>>

\* one call of _build_prd_output that raises TypeError in a Q&A loop
BuildPrdRaises ==
    /\ t_pc = "call"
    /\ qa_loop_raises(t_in.synthesis)
    /\ t_out' = TypeError
    /\ t_pc' = "raised"
    /\ UNCHANGED <<t_in, pipeline_vars, adapter_vars, runner_vars>>

PrdNext ==
    \/ BuildPrdReturns
    \/ BuildPrdRaises

PrdSpec == PrdInit /\ [][PrdNext]_vars

\* the sections mapping has the ten fixed names as keys and no empty section
TenSections ==
    /\ DOMAIN t_out.sections = DOMAIN PRD_SECTION_DEFAULTS
    /\ Cardinality(DOMAIN t_out.sections) = 10
    /\ \A section_name \in DOMAIN t_out.sections : t_out.sections[section_name] # <<>>

\* item is a label-only text that stands in a line of the document body
LabelOfBody(item) ==
    /\ _is_label_only_line(item)
    /\ \E i \in DOMAIN splitlines(t_in.body_text) : contains(splitlines(t_in.body_text)[i], item)

\* C24: the sections mapping built by _build_prd_output has exactly the ten fixed
\* section names as keys, every section is a non-empty list, and no label-only line
\* of the document body is an item of a section.
C24_PrdShape ==
    t_pc = "return" =>
        /\ TenSections
        /\ \A section_name \in DOMAIN t_out.sections :
              \A i \in DOMAIN t_out.sections[section_name] :
                  ~LabelOfBody(t_out.sections[section_name][i])

\* the part of C24 about the keys and the defaults
C24_PrdTenSections == t_pc = "return" => TenSections

\* ---------------------------------------------------------------------------
\* The snapshot and the reviewer fan-out
\* ---------------------------------------------------------------------------

\* C28: once the build step has stored the DecisionSnapshot, no later step (review,
\* synthesize, score, gate, expand, persist) changes it; the synthesize step adds
\* the reviewer outputs to a copy.
C28_SnapshotImmutable == [][decision_snapshot # None => decision_snapshot' = decision_snapshot]_vars

\* a run that went through every step after the build, the snapshot still there
C28_Witness ==
    /\ pc = "END"
    /\ decision_snapshot # None
    /\ \E i \in DOMAIN trace : trace[i] = "synthesize_reviews"
    /\ \E i \in DOMAIN trace : trace[i] = "generate_prd"
    /\ \E i \in DOMAIN trace : trace[i] = "persist_artifacts"
    /\ "reviews" \in DOMAIN calls["Chairperson"][1].context.snapshot

\* the provider answers a reviewer adapter got in this run, in call order
AnswersTo(key) == [i \in DOMAIN calls[AgentName(key)] |-> calls[AgentName(key)][i].resp]

\* C29: the reviews map is empty or holds exactly the keys ceo, cfo, cto, compliance;
\* every reviewer adapter is given the same snapshot and the same missing-field
\* list; each verdict is determined by the answers its own adapter got.
C29_ReviewerFanOut ==
    /\ reviews = <<>> \/ DOMAIN reviews = {"ceo", "cfo", "cto", "compliance"}
    /\ \A k \in Distinct(ReviewerKeys) : \A i \in DOMAIN calls[AgentName(k)] :
          calls[AgentName(k)][i].context = ReviewerContext(decision_snapshot, missing_sections)
    /\ reviews # <<>> =>
          \A k \in Distinct(ReviewerKeys) :
              reviews[k] = _get_agent_review_output(k, AnswersTo(k)).review

\* the four verdicts are stored, from adapters that got different answers: one
\* placeholder among scored verdicts, and a compliance adapter that asked twice
C29_Witness ==
    /\ DOMAIN reviews = {"ceo", "cfo", "cto", "compliance"}
    /\ reviews["ceo"] = _invalid_review_fallback("CEO", "pydantic validation failed")
    /\ reviews["cfo"].score > 1
    /\ ~reviews["cfo"].blocked
    /\ Len(calls["Compliance"]) = 2
    /\ calls["CEO"][1].context = calls["Compliance"][2].context
    /\ calls["CEO"][1].context.memory_context.missing_sections # <<>>

\* ---------------------------------------------------------------------------
\* Calls of _update_page_status
\* ---------------------------------------------------------------------------

\* the properties a caller passes: None, no Status property, a Status of type
\* status, of type select, of another type
StatusPages ==
    {<<>>,
     [n \in {"Baseline"} |-> NumberProp(100)],
     [n \in {"Status"} |-> StatusProp("Proposed")],
     [n \in {"Status"} |-> [type |-> JStr("select"), select |-> JDict([name |-> JStr("Proposed")])]],
     [n \in {"Status"} |-> RichTextProp("Proposed")]}

StatusValues == {"Under Evaluation", "Incomplete", "Blocked", "Challenged", "Approved"}

StatusInit ==
    /\ RunnerOff
    /\ PipelineIdle
    /\ AdapterOff
    /\ t_pc = "call"
    /\ t_in \in [page_properties : StatusPages, status_value : StatusValues, results : StatusResults]
    /\ t_out = None

\* one call of _update_page_status that returns
UpdatePageStatusReturns ==
    /\ t_pc = "call"
    /\ LET upd == _update_page_status(t_in.page_properties, t_in.status_value, t_in.results)
       IN  /\ ~upd.raised
           /\ t_out' = upd.attempts
    /\ t_pc' = "return"
    /\ UNCHANGED <<t_in, pipeline_vars, adapter_vars, runner_vars>>

\* one call of _update_page_status that lets the error of its second attempt out
UpdatePageStatusRaises ==
    /\ t_pc = "call"
    /\ LET upd == _update_page_status(t_in.page_properties, t_in.status_value, t_in.results)
       IN  /\ upd.raised
           /\ t_out' = upd.attempts
    /\ t_pc' = "raised"
    /\ UNCHANGED <<t_in, pipeline_vars, adapter_vars, runner_vars>>

StatusNext ==
    \/ UpdatePageStatusReturns
    \/ UpdatePageStatusRaises

StatusSpec == StatusInit /\ [][StatusNext]_vars

\* the payload shape the type of the Status property selects
ShapeOfType(page_properties) ==
    IF /\ "Status" \in DOMAIN page_properties
       /\ "type" \in DOMAIN page_properties["Status"]
       /\ page_properties["Status"]["type"] = JStr("select")
    THEN "select" ELSE "status"

OtherShape(shape) == IF shape = "select" THEN "status" ELSE "select"

\* C30: a call of _update_page_status makes at most two write attempts; the first
\* has the shape the type of the Status property selects; a second is made only when
\* the first raised, with the other shape and the same value; the call returns when
\* an attempt succeeds and raises only when the second attempt raised.
C30_StatusFallback ==
    t_pc \in {"return", "raised"} =>
        /\ Len(t_out) \in {1, 2}
        /\ t_out[1] = [shape |-> ShapeOfType(t_in.page_properties), name |-> t_in.status_value]
        /\ Len(t_out) = 2 <=> t_in.results[1] = "raise"
        /\ Len(t_out) = 2 =>
              t_out[2] = [shape |-> OtherShape(t_out[1].shape), name |-> t_in.status_value]
        /\ t_pc = "raised" <=> (t_in.results[1] = "raise" /\ t_in.results[2] = "raise")

\* the first attempt with the select shape raised and the second, with the status
\* shape, succeeded: the call returned
C30_Witness ==
    /\ t_pc = "return"
    /\ Len(t_out) = 2
    /\ t_out[1].shape = "select"
    /\ t_out[2].shape = "status"
    /\ t_out[2].name = "Challenged"

(***************************************************************************)
(* Properties: degraded reviewers and the gate                             *)
(***************************************************************************)
\* the adapter of the reviewer got no usable payload in this run: the request
\* raised, the completions were empty or unparsable, or the payload broke the schema
AdapterFailed(key) ==
    \/ UnrecoverableFailure(key, AnswersTo(key))
    \/ ViolatesConstraints(_get_agent_review_output(key, AnswersTo(key)).raw)

\* the verdict stored for the reviewer is the placeholder or the invalid-schema fallback
DegradedVerdict(key) ==
    \/ IsPlaceholder(_get_agent_review_output(key, AnswersTo(key)).raw, AgentName(key))
    \/ reviews[key] \in {_invalid_review_fallback(AgentName(key), reason) :
                            reason \in {"agent evaluate call failed", "pydantic validation failed"}}

\* C31 (a degraded reviewer never leads to approval): an approved gate has four
\* verdicts that do not block and none of them is the placeholder or the
\* invalid-schema fallback; once a reviewer adapter has failed, its verdict is
\* degraded and blocks, the gate is never "approved" or "revision_required", the
\* gate that returned is "blocked" with "Blocked" as the last status written, the
\* expand step is never entered and no requirements document is built.
C31_DegradedNeverApproved ==
    reviews # <<>> =>
        /\ gate = "approved" =>
               \A k \in Distinct(ReviewerKeys) : ~reviews[k].blocked /\ ~DegradedVerdict(k)
        /\ \A k \in Distinct(ReviewerKeys) :
               AdapterFailed(k) \/ DegradedVerdict(k) =>
                   /\ DegradedVerdict(k)
                   /\ reviews[k].blocked
                   /\ gate \in {"none", "blocked"}
                   /\ gate = "blocked" =>
                          /\ notion.status_writes # <<>>
                          /\ notion.status_writes[Len(notion.status_writes)] = "Blocked"
                          /\ StoreStatus(notion) = "Blocked"
                   /\ gate = "none" /\ (\E i \in DOMAIN trace : trace[i] = "_decide_gate") =>
                          pc = "ABORTED"
                   /\ \A i \in DOMAIN trace : trace[i] # "generate_prd"
                   /\ prd = None

\* a run that ended blocked although three reviewers scored 9 without blocking:
\* the Compliance adapter got an answer that is not JSON
C31_Witness ==
    /\ pc = "END"
    /\ gate = "blocked"
    /\ AdapterFailed("compliance")
    /\ IsPlaceholder(_get_agent_review_output("compliance", AnswersTo("compliance")).raw, "Compliance")
    /\ \A k \in {"ceo", "cfo", "cto"} : reviews[k].score = 9 /\ ~reviews[k].blocked
    /\ StoreStatus(notion) = "Blocked"
    /\ prd = None

(***************************************************************************)
(* Properties: what the gate depends on                                    *)
(***************************************************************************)
\* the blocked flag and the score of each verdict, and nothing else of it
BlockedAndScore(revs) ==
    [k \in DOMAIN revs |-> [blocked |-> revs[k].blocked, score |-> revs[k].score]]

\* C32 (gate determinism): the category _decide_gate returned is the value of one
\* function of the four blocked flags and the four scores, and the branch taken and
\* the status written follow from it; the recommendation of the synthesis, the
\* missing-field list and the status the build step wrote do not enter.
C32_GateDeterminism ==
    gate # "none" =>
        /\ DOMAIN reviews = Distinct(ReviewerKeys)
        /\ gate = GateCategory(BlockedAndScore(reviews), CalculateDqs(BlockedAndScore(reviews)))
        /\ notion.status_writes[Len(notion.status_writes)] = GateStatus(gate)
        /\ (\E i \in DOMAIN trace : trace[i] = "generate_prd") => gate = "approved"
        /\ pc \in {"generate_prd", "persist_artifacts", "END", "ABORTED"}
        /\ pc = "generate_prd" <=> (gate = "approved" /\ trace[Len(trace)] = "_decide_gate")

\* an approved gate on a document the build step found incomplete, under a
\* synthesis that recommends "Blocked"
C32_Witness ==
    /\ gate = "approved"
    /\ pc = "END"
    /\ DictGet(synthesis, "final_recommendation", None) = JStr("Blocked")
    /\ missing_sections # <<>>
    /\ notion.status_writes[1] = "Incomplete"
    /\ \A k \in DOMAIN reviews : reviews[k].score = 9 /\ ~reviews[k].blocked

(***************************************************************************)
(* Properties: order of the persist step and its partial failure           *)
(***************************************************************************)
\* the titles of the verdict records of the store, in the order they were created
VerdictTitles == [i \in DOMAIN notion.reviews |-> notion.reviews[i].title]

\* the stable keys of the verdicts in the order the persist step writes them
PersistOrder ==
    [i \in 1..(Len(ReviewerKeys) + 1) |->
        decision_id \o ":" \o (IF i <= Len(ReviewerKeys) THEN ReviewerKeys[i] ELSE "Chairperson")]

\* C33 (persist order and partial failure), on a store that starts without
\* records: the verdict records are created in the order ceo, cfo, cto, compliance,
\* Chairperson and the requirements document after all five, on the approved path
\* only; when the write for a role raises, exactly the writes before it are in the
\* store and nothing after it is; the status is PERSISTED only in a run that ended
\* with every write made, never in a run that aborted.
C33_PersistOrder ==
    /\ IsPrefix(VerdictTitles, PersistOrder)
    /\ Len(notion.prds) <= 1
    /\ notion.prds # <<>> => VerdictTitles = PersistOrder /\ gate = "approved"
    /\ status = "PERSISTED" <=> pc = "END"
    /\ pc = "END" =>
           /\ VerdictTitles = PersistOrder
           /\ gate = "approved" <=> notion.prds # <<>>
           /\ error = NoError
    /\ pc = "ABORTED" =>
           /\ status # "PERSISTED"
           /\ \A i \in DOMAIN ReviewerKeys :
                  error = ReviewPersistError(decision_id, ReviewerKeys[i]) =>
                      /\ VerdictTitles = SubSeq(PersistOrder, 1, i - 1)
                      /\ notion.prds = <<>>
           /\ error = ReviewPersistError(decision_id, "Chairperson") =>
                  /\ VerdictTitles = SubSeq(PersistOrder, 1, Len(ReviewerKeys))
                  /\ notion.prds = <<>>
           /\ error = PrdPersistError(decision_id, decision_name) =>
                  /\ VerdictTitles = PersistOrder
                  /\ notion.prds = <<>>
           /\ VerdictTitles # <<>> => trace[Len(trace)] = "persist_artifacts"

\* the write of the cto verdict raised on the approved path: the ceo and cfo
\* records stay, nothing follows, the status is still DECIDED
C33_Witness ==
    /\ pc = "ABORTED"
    /\ gate = "approved"
    /\ error = ReviewPersistError(decision_id, "cto")
    /\ VerdictTitles = <<decision_id \o ":ceo", decision_id \o ":cfo">>
    /\ notion.prds = <<>>
    /\ prd # None
    /\ status = "DECIDED"

(***************************************************************************)
(* Several documents, one store: main() runs the workflow on one document  *)
(* after the other, and every run writes to the same Executive Reviews and *)
(* PRD databases.  Each run is taken to its persist step with the verdicts *)
(* its reviewers returned.                                                 *)
(***************************************************************************)
\* the documents of the batch: two of them carry the same display name
SharedPages ==
    [d \in {"decision-1", "decision-2", "decision-3"} |->
        [n \in {"Decision Name", "Owner", "Status"} |->
            CASE n = "Decision Name" ->
                     TitleProp(IF d = "decision-3" THEN "Product bundles" ELSE "Checkout redesign")
              [] n = "Owner" ->
                     RichTextProp(CASE d = "decision-1" -> "CEO"
                                    [] d = "decision-2" -> "CFO"
                                    [] d = "decision-3" -> "CTO")
              [] n = "Status" -> StatusProp("Proposed")]]

\* the answers the reviewers and the Chairperson give on each document
SharedBehaviour(d) ==
    IF d = "decision-3"
    THEN <<Reply(Json(_review_payload(10, TRUE)), "stop"),
           Reply(Json(_synthesis_payload("Blocked")), "stop")>>
    ELSE <<Reply(Json(_review_payload(9, FALSE)), "stop"),
           Reply(Json(_synthesis_payload("Approved")), "stop")>>

\* the scans of the batch: the documents in any order, none twice
SharedScans ==
    {q \in UNION {[1..n -> DOMAIN SharedPages] : n \in 0..3} :
        \A i, j \in DOMAIN q : i # j => q[i] # q[j]}

\* the verdicts of the reviewers on the document
SharedReviews(d) ==
    [k \in Distinct(ReviewerKeys) |-> _get_agent_review_output(k, <<SharedBehaviour(d)[1]>>).review]

\* the requirements document a run on the document builds
SharedPrd(d) ==
    _build_prd_output_text(SharedPages[d], "", ChairpersonAgent_evaluate(<<SharedBehaviour(d)[2]>>).ret,
                           [i \in DOMAIN ReviewerKeys |-> SharedReviews(d)[ReviewerKeys[i]]],
                           DecisionNameOf(SharedPages[d], d)).val

SharedInit ==
    /\ decision_id = "decision-1"
    /\ r_pc = "loop"
    /\ r_queue \in SharedScans
    /\ r_done = <<>>
    /\ TextOff
    /\ AdapterOff
    /\ PipelineIdle

\* workflow.run(decision_id=...) on the next document of the scan, up to the
\* persist step; the store keeps the records of the runs before
SharedRun ==
    /\ r_pc = "loop"
    /\ r_queue # <<>>
    /\ decision_id' = Head(r_queue)
    /\ r_queue' = Tail(r_queue)
    /\ r_pc' = "running"
    /\ reviews' = SharedReviews(Head(r_queue))
    /\ synthesis' = ChairpersonAgent_evaluate(<<SharedBehaviour(Head(r_queue))[2]>>).ret
    /\ dqs' = CalculateDqs(reviews')
    /\ gate' = GateCategory(reviews', dqs')
    /\ decision_name' = DecisionNameOf(SharedPages[Head(r_queue)], Head(r_queue))
    /\ IF GateTarget(gate') = "generate_prd"
       THEN /\ prd' = SharedPrd(Head(r_queue))
            /\ status' = "DECIDED"
       ELSE /\ prd' = None
            /\ status' = "SYNTHESIZED"
    /\ notion' = [notion EXCEPT !.properties = SharedPages[Head(r_queue)],
                                !.status_writes = <<>>]
    /\ pc' = "persist_artifacts"
    /\ trace' = <<>>
    /\ error' = NoError
    /\ UNCHANGED <<decision_snapshot, missing_sections, calls, r_done>>
    /\ UNCHANGED adapter_vars
    /\ UNCHANGED text_vars

SharedNext ==
    \/ SharedRun
    \/ _persist_artifacts_node
    \/ main_run_returned
    \/ main_run_raised
    \/ main_return

SharedSpec == SharedInit /\ [][SharedNext]_vars

\* the document records of the store that hold what the run on the document built
PrdRecordsOf(d) == {i \in DOMAIN notion.prds : notion.prds[i].children = SharedPrd(d)}

\* the verdict record of the document and the role is the one its run wrote
VerdictKept(d, role) ==
    \E i \in DOMAIN notion.reviews :
        /\ RecordsWithKey(notion, d \o ":" \o role) = {i}
        /\ notion.reviews[i].decision = d
        /\ role # "Chairperson" =>
               /\ notion.reviews[i].score = SharedReviews(d)[role].score
               /\ notion.reviews[i].blocked = SharedReviews(d)[role].blocked

\* C34 (runs of different documents do not overwrite each other): for every
\* document whose run persisted, whatever runs of other documents came after it,
\* the store still holds the five verdict records that run wrote, under the keys
\* of that document, and, when the run was approved, the requirements document
\* it built; this also when two documents have the same display name.
C34_NoCrossOverwrite ==
    \A e \in DOMAIN r_done :
        r_done[e].status = "PERSISTED" =>
            /\ \A role \in Distinct(PersistedRoles) : VerdictKept(r_done[e].decision_id, role)
            /\ GateCategory(SharedReviews(r_done[e].decision_id),
                            CalculateDqs(SharedReviews(r_done[e].decision_id))) = "approved" =>
                   PrdRecordsOf(r_done[e].decision_id) # {}

\* the same for the verdict records of every document, and for the requirements
\* documents of documents whose display name no other document of the batch has
C34_NoCrossOverwriteDistinctNames ==
    \A e \in DOMAIN r_done :
        r_done[e].status = "PERSISTED" =>
            /\ \A role \in Distinct(PersistedRoles) : VerdictKept(r_done[e].decision_id, role)
            /\ /\ GateCategory(SharedReviews(r_done[e].decision_id),
                               CalculateDqs(SharedReviews(r_done[e].decision_id))) = "approved"
               /\ \A f \in DOMAIN r_done :
                      r_done[f].decision_id # r_done[e].decision_id =>
                          DecisionNameOf(SharedPages[r_done[f].decision_id], r_done[f].decision_id)
                              # DecisionNameOf(SharedPages[r_done[e].decision_id],
                                               r_done[e].decision_id)
               /\ (r_pc = "running" /\ pc \in {"END", "ABORTED"}) =>
                      DecisionNameOf(SharedPages[decision_id], decision_id)
                          # DecisionNameOf(SharedPages[r_done[e].decision_id], r_done[e].decision_id)
               => PrdRecordsOf(r_done[e].decision_id) # {}

(***************************************************************************)
(* Properties: a processed document is not picked up again                 *)
(***************************************************************************)
\* StrategicDecisionsRepo.list_proposed on the page of the store: the filter
\* Status equals "Proposed", on a status or on a select property
list_proposed(store, page_id) ==
    LET p == PropertyGet(store.properties, "Status")
        proposed(kind) == kind \in DOMAIN p /\ DictGet(p[kind].v, "name", None) = JStr("Proposed")
    IN  IF proposed("status") \/ proposed("select") THEN <<page_id>> ELSE <<>>

WorkingStatuses == {"Under Evaluation", "Incomplete", "Blocked", "Challenged", "Approved"}

\* C35 (no reprocessing): every status the pipeline writes is one of Under
\* Evaluation, Incomplete, Blocked, Challenged, Approved; from the first status
\* write that succeeded on, the stored status of the document is the last of them
\* and a scan for Proposed documents does not return the document, also in a run
\* that aborted; the build step makes the first write before any later step runs.
C35_NoReprocessing ==
    /\ \A i \in DOMAIN notion.status_writes : notion.status_writes[i] \in WorkingStatuses
    /\ notion.status_writes # <<>> =>
           /\ StoreStatus(notion) = notion.status_writes[Len(notion.status_writes)]
           /\ StoreStatus(notion) # "Proposed"
           /\ list_proposed(notion, decision_id) = <<>>
           /\ notion.status_writes[1] \in {"Under Evaluation", "Incomplete"}
    /\ notion.status_writes = <<>> =>
           /\ list_proposed(notion, decision_id) = <<decision_id>>
           /\ pc \in {"build_decision", "ABORTED"}
           /\ trace \in {<<>>, <<"build_decision">>}

\* the run aborted in the gate, after the build step wrote "Under Evaluation":
\* the document is not Proposed any more
C35_Witness ==
    /\ pc = "ABORTED"
    /\ trace[Len(trace)] = "_decide_gate"
    /\ notion.status_writes = <<"Under Evaluation">>
    /\ StoreStatus(notion) = "Under Evaluation"
    /\ list_proposed(notion, decision_id) = <<>>

(***************************************************************************)
(* The checkbox write-back of the build step: _build_decision_node on      *)
(* documents whose governance checks stand in every combination of         *)
(* checkbox (absent, unticked, ticked) and text (silent, supported,        *)
(* declined with "<check>: no").  The store record also keeps the page as   *)
(* it was fetched.                                                         *)
(***************************************************************************)
\* a required gate, a check with two trigger groups, and the check whose name
\* sorts last
AutocheckChecks == {"Kill Criteria Defined", "Risk Matrix Completed", ">=3 Options Evaluated"}

AutocheckDocuments ==
    {[properties |-> GovProps([s \in Distinct(ScalarFields) |-> "set"], boxes),
      body_text |-> GovText(said, <<"option a", "option b", "option c">>, <<"5", "8", "120000">>)] :
        boxes \in [AutocheckChecks -> {"absent", "unticked", "ticked"}],
        said \in [AutocheckChecks -> {"silent", "supported", "declined"}]}

AutocheckInit ==
    /\ RunnerOff
    /\ TextOff
    /\ AdapterOff
    /\ pc = Edge("START")
    /\ decision_snapshot = None
    /\ reviews = <<>>
    /\ dqs = F_0_0
    /\ status = "PROPOSED"
    /\ synthesis = None
    /\ prd = None
    /\ missing_sections = <<>>
    /\ decision_name = "Decision " \o decision_id
    /\ gate = "none"
    /\ notion \in {[properties |-> d.properties, body_text |-> d.body_text,
                    reviews |-> <<>>, prds |-> <<>>, status_writes |-> <<>>,
                    fetched |-> d.properties] : d \in AutocheckDocuments}
    /\ calls = [a \in AgentNames |-> <<>>]
    /\ trace = <<>>
    /\ error = NoError

AutocheckNext ==
    \/ _build_decision_node

AutocheckSpec == AutocheckInit /\ [][AutocheckNext]_vars

\* the properties whose stored value is not the fetched one, the Status aside
WrittenFields ==
    {n \in (DOMAIN notion.properties) \cup (DOMAIN notion.fetched) :
        /\ n # "Status"
        /\ \/ n \notin DOMAIN notion.properties
           \/ n \notin DOMAIN notion.fetched
           \/ notion.properties[n] # notion.fetched[n]}

\* the check is inferred from the text and the fetched page has it as a checkbox
\* that is not ticked
Autochecked(g) ==
    /\ infer_governance_checks_from_text(notion.body_text)[g]
    /\ g \in DOMAIN notion.fetched
    /\ "checkbox" \in DOMAIN notion.fetched[g]
    /\ ~Truthy(notion.fetched[g]["checkbox"])

\* positions of the checks in sorted order
SortedPosition(g) == CHOOSE i \in DOMAIN SortedChecks : SortedChecks[i] = g

\* C36 (the checkbox write-back only sets boxes): the write-back changes exactly
\* the governance fields whose check is inferred true and whose property is a
\* checkbox that was not ticked, and sets them to true; a ticked checkbox stays
\* ticked, also under an explicit "<check>: no"; no property is added to the page;
\* nothing is written before the status write has succeeded; and the snapshot
\* lists the fields written, each once, in sorted order.
C36_AutocheckOnlySets ==
    /\ DOMAIN notion.properties = DOMAIN notion.fetched
    /\ \A n \in WrittenFields :
           /\ n \in GovernanceChecks
           /\ Autochecked(n)
           /\ notion.properties[n] = DictSet(notion.fetched[n], "checkbox", JBool(TRUE))
    /\ \A n \in DOMAIN notion.fetched :
           ("checkbox" \in DOMAIN notion.fetched[n] /\ Truthy(notion.fetched[n]["checkbox"])) =>
               notion.properties[n] = notion.fetched[n]
    /\ WrittenFields # {} => notion.status_writes # <<>>
    /\ pc = "ABORTED" => WrittenFields = {} /\ decision_snapshot = None
    /\ pc = Edge("build_decision") =>
           LET listed == decision_snapshot.computed.autochecked_governance_fields
           IN  /\ WrittenFields = {g \in GovernanceChecks : Autochecked(g)}
               /\ {listed[i] : i \in DOMAIN listed} = WrittenFields
               /\ \A i, j \in DOMAIN listed :
                      i < j => SortedPosition(listed[i]) < SortedPosition(listed[j])
               /\ \A g \in WrittenFields :
                      decision_snapshot.properties[g]["checkbox"] = JBool(TRUE)

\* a build step that ticked two boxes and left alone a ticked box whose check
\* the text declines
C36_Witness ==
    /\ pc = Edge("build_decision")
    /\ WrittenFields = {"Kill Criteria Defined", ">=3 Options Evaluated"}
    /\ decision_snapshot.computed.autochecked_governance_fields
           = <<"Kill Criteria Defined", ">=3 Options Evaluated">>
    /\ ExplicitNoPhrase("Risk Matrix Completed") \in notion.body_text.contains
    /\ "Risk Matrix Completed" \in DOMAIN notion.fetched
    /\ notion.fetched["Risk Matrix Completed"]["checkbox"] = JBool(TRUE)
    /\ notion.properties["Risk Matrix Completed"]["checkbox"] = JBool(TRUE)
====
